---- MODULE Spec2Model ----
(***************************************************************************)
(* A model of the dnszones resolution engine:                              *)
(*   - the sliding-window RateLimiter          (src/utils/rate-limiter.ts) *)
(*   - the DoH transport queryDns              (src/utils/dns-client.ts)   *)
(*   - the requests of the RDAP resolver       (src/utils/rdap.ts)         *)
(*   - the zone walk buildZoneHierarchy        (src/utils/dns.ts)          *)
(*                                                                         *)
(* Three specifications share the variables:                               *)
(*   SpecLimiter    the RateLimiter's methods called in any order          *)
(*   SpecTransport  concurrent queryDns / queryRdap calls and the clock    *)
(*   Spec           one buildZoneHierarchy call against a DoH resolver     *)
(***************************************************************************)
EXTENDS Integers, Sequences, FiniteSets, TLC

VARIABLES
    now,              \* Date.now(), in clock ticks
    queries,          \* RateLimiter.queries: the retained timestamps, oldest first
    lastOp,           \* SpecLimiter: the RateLimiter method called last
    lastBool,         \* SpecLimiter: what canMakeQuery() returned last
    lastNum,          \* SpecLimiter: what getRemainingQueries()/getResetTime() returned last
    recLog,           \* SpecLimiter: every timestamp recordQuery() pushed since reset()
    tasks,            \* SpecTransport: the concurrent queryDns calls, one per task
    rdap,             \* SpecTransport, SpecRdap: the queryRdap calls, one per index
    admitLog,         \* SpecTransport: when each admitted queryDns call sent its request
    rdapServerCache,  \* rdap.ts rdapServerCache: the server list stored for each TLD
    queriedDomain,    \* Spec: buildZoneHierarchy's argument, a sequence of labels
    walk,             \* Spec: buildZoneHierarchy's position and local variables
    net,              \* Spec: the queryDns call awaited and what it settled with
    nodes,            \* Spec: the ZoneHierarchyData objects built so far; nodes[1] is root
    result,           \* Spec: how the buildZoneHierarchy call ended
    issued,           \* Spec: the queryDns calls made, in order
    probeResp,        \* Spec: the resolver's SOA answer for the queried name
    nsWorld,          \* Spec: the resolver's NS answers given so far, by name
    authOther,        \* Spec: the candidates answered with an Authority-only SOA of another owner
    cnameWorld,       \* Spec: the resolver's answer to a CNAME question for the queried name
    threw,            \* Spec: the types of the queries of the call that have thrown
    publicSuffixMap,  \* publicSuffix.ts publicSuffixMap: the parsed list, once loaded
    runs,             \* SpecTwice: the call under way, the outcomes given, the first result
    apexCall,         \* SpecApex: the findZoneApex call around the walk, and what it returned
    rec               \* SpecRecords: the getDetailedDnsRecords call

limiterVars == <<now, queries>>
apiVars == <<lastOp, lastBool, lastNum, recLog>>
transportVars == <<tasks, rdap, admitLog, rdapServerCache>>
zoneVars == <<queriedDomain, walk, net, nodes, result, issued, probeResp, nsWorld, authOther,
              cnameWorld, threw, publicSuffixMap, runs, apexCall, rec>>
recordVars == <<apexCall, rec>>

----------------------------------------------------------------------------
(* Configuration (src/config/app.ts), in clock ticks.                      *)

RATE_LIMIT_MAX_QUERIES == 2
RATE_LIMIT_WINDOW_MS == 3
DNS_TIMEOUT == 2

(* Bounds of the model.                                                    *)
MaxTime == 4
MaxRecords == 4
NTasks == 3
NRdap == 3

----------------------------------------------------------------------------
(* RateLimiter                                                             *)

Max(a, b) == IF a >= b THEN a ELSE b

InWindowInclusive(ts, t) == t - ts <= RATE_LIMIT_WINDOW_MS

\* The entries cleanup() keeps: now - query.timestamp < windowMs.
InWindow(ts, t) == t - ts < RATE_LIMIT_WINDOW_MS

\* cleanup(): this.queries = this.queries.filter(...)
Cleanup(qs, t) == SelectSeq(qs, LAMBDA ts : InWindow(ts, t))

UnderLimitInclusive(qs) == Len(qs) <= RATE_LIMIT_MAX_QUERIES

\* The comparison canMakeQuery() returns, on the cleaned window.
UnderLimit(qs) == Len(qs) < RATE_LIMIT_MAX_QUERIES

\* getRemainingQueries(), on the cleaned window.
Remaining(qs) == Max(0, RATE_LIMIT_MAX_QUERIES - Len(qs))

\* A reset time measured from the newest retained entry.
ResetTimeFromNewest(qs, t) ==
    IF Len(qs) = 0 THEN 0 ELSE Max(0, (qs[Len(qs)] + RATE_LIMIT_WINDOW_MS) - t)

\* getResetTime(): no cleanup; the oldest retained entry is queries[0].
ResetTime(qs, t) ==
    IF Len(qs) = 0 THEN 0 ELSE Max(0, (qs[1] + RATE_LIMIT_WINDOW_MS) - t)

RecordedAfterCleanup(qs, t) == Append(SelectSeq(qs, LAMBDA ts : t - ts < RATE_LIMIT_WINDOW_MS), t)

\* What recordQuery() leaves in this.queries.
Recorded(qs, t) == Append(qs, t)

----------------------------------------------------------------------------
(* SpecLimiter: the RateLimiter instance driven through its public methods *)

CanMakeQuery ==
    /\ queries' = Cleanup(queries, now)
    /\ lastBool' = UnderLimit(queries')
    /\ lastOp' = "canMakeQuery"
    /\ UNCHANGED <<now, lastNum, recLog, transportVars, zoneVars>>

RecordQuery ==
    /\ Len(recLog) < MaxRecords
    /\ queries' = Recorded(queries, now)
    /\ recLog' = Append(recLog, now)
    /\ lastOp' = "recordQuery"
    /\ UNCHANGED <<now, lastBool, lastNum, transportVars, zoneVars>>

GetRemainingQueries ==
    /\ queries' = Cleanup(queries, now)
    /\ lastNum' = Remaining(queries')
    /\ lastOp' = "getRemainingQueries"
    /\ UNCHANGED <<now, lastBool, recLog, transportVars, zoneVars>>

GetResetTime ==
    /\ lastNum' = ResetTime(queries, now)
    /\ lastOp' = "getResetTime"
    /\ UNCHANGED <<now, queries, lastBool, recLog, transportVars, zoneVars>>

Reset ==
    /\ queries # <<>>
    /\ queries' = <<>>
    /\ recLog' = <<>>
    /\ lastOp' = "reset"
    /\ UNCHANGED <<now, lastBool, lastNum, transportVars, zoneVars>>

\* Date.now() advances between two calls.
LimiterTick ==
    /\ now < MaxTime
    /\ now' = now + 1
    /\ lastOp' = "tick"
    /\ UNCHANGED <<queries, lastBool, lastNum, recLog, transportVars, zoneVars>>

\* A task before its call: steps is what the call did so far, in program order.
IdleTask == [pc |-> "idle", start |-> 0, outcome |-> "none", resetTimeMs |-> 0, lag |-> 0,
             steps |-> <<>>]

----------------------------------------------------------------------------
(* RDAP: the documents read and the result built (src/utils/rdap.ts)       *)

\* A property of a decoded JSON object that may be missing.
Absent == [present |-> FALSE, v |-> ""]
AbsentName == [present |-> FALSE, v |-> <<>>]
AbsentList == [present |-> FALSE, v |-> <<>>]
Some(x) == [present |-> TRUE, v |-> x]

\* getTld lines 14-17: the last label of the domain.
GetTld(domain) == domain[Len(domain)]

\* A response body. kind: "garbage" cannot be decoded, "null" decodes to null,
\* "bootstrap" is a bootstrap registry (services: [tlds, servers] pairs, or a
\* document without services), "domain" an RDAP domain object.
NoBody == [kind |-> "none", services |-> AbsentList, ldhName |-> AbsentName,
           entities |-> AbsentList, events |-> AbsentList, status |-> AbsentList,
           nameservers |-> AbsentList]
Garbage == [NoBody EXCEPT !.kind = "garbage"]
NullBody == [NoBody EXCEPT !.kind = "null"]
Service(tlds, servers) == [tlds |-> tlds, servers |-> servers]
Bootstrap(services) == [NoBody EXCEPT !.kind = "bootstrap", !.services = services]
Entity(roles, fn) == [roles |-> roles, fn |-> fn]
Event(action, date) == [eventAction |-> action, eventDate |-> date]
DomainBody(ldhName, entities, events, status, nameservers) ==
    [NoBody EXCEPT !.kind = "domain", !.ldhName = ldhName, !.entities = entities,
                   !.events = events, !.status = status, !.nameservers = nameservers]

\* Array.prototype.find: the index of the first element passing the test, 0 if none.
FirstIndex(list, Test(_)) ==
    IF \E i \in DOMAIN list : Test(list[i])
    THEN CHOOSE i \in DOMAIN list : Test(list[i]) /\ \A j \in 1..(i - 1) : ~Test(list[j])
    ELSE 0

\* servers[0] || null, lines 26 and 43.
FirstServer(servers) == IF Len(servers) > 0 /\ servers[1] # "" THEN servers[1] ELSE "null"

\* A cache that keeps only the entry stored last.
CacheSetAlone(cache, tld, servers) == tld :> servers

\* rdapServerCache.set(tld, servers), line 42.
CacheSet(cache, tld, servers) ==
    [t \in DOMAIN cache \cup {tld} |-> IF t = tld THEN servers ELSE cache[t]]

\* Lines 39-45: the first service listing the TLD (lowercased), 0 if none.
LowerTld(tld) == IF tld = "COM" THEN "com" ELSE tld
FindService(services, tld) == FirstIndex(services, LAMBDA sv : LowerTld(tld) \in sv.tlds)

\* The RdapResponse returned: an error, or the fields parsed.
NoRdapResult == [error |-> Absent, domain |-> AbsentName, registrar |-> Absent,
                 registrationDate |-> Absent, expirationDate |-> Absent,
                 status |-> AbsentList, nameservers |-> AbsentList]
RdapError(message) == [NoRdapResult EXCEPT !.error = Some(message)]

\* event?.eventDate of the first event with the action, lines 91-102.
EventDate(events, action) ==
    IF FirstIndex(events, LAMBDA e : e.eventAction = action) = 0 THEN Absent
    ELSE events[FirstIndex(events, LAMBDA e : e.eventAction = action)].eventDate

\* A parse that leaves the registrar undefined when no name is found.
RegistrarOrUndefined(entities) ==
    LET list == IF entities.present THEN entities.v ELSE <<>>
        i == FirstIndex(list, LAMBDA e : "registrar" \in e.roles)
    IN IF i > 0 /\ list[i].fn.present /\ list[i].fn.v # "" THEN Some(list[i].fn.v)
       ELSE Absent

\* Lines 86-88 and 100: the fn of the first entity with role registrar, or 'Unknown'.
Registrar(entities) ==
    LET list == IF entities.present THEN entities.v ELSE <<>>
        i == FirstIndex(list, LAMBDA e : "registrar" \in e.roles)
    IN IF i > 0 /\ list[i].fn.present /\ list[i].fn.v # "" THEN Some(list[i].fn.v)
       ELSE Some("Unknown")

\* Lines 85-105: the result built from a decoded domain object.
ParseRdap(data, domain) ==
    [error |-> Absent,
     domain |-> IF data.ldhName.present /\ data.ldhName.v # <<>> THEN Some(data.ldhName.v)
                ELSE Some(domain),
     registrar |-> Registrar(data.entities),
     registrationDate |-> EventDate(IF data.events.present THEN data.events.v ELSE <<>>,
                                    "registration"),
     expirationDate |-> EventDate(IF data.events.present THEN data.events.v ELSE <<>>,
                                  "expiration"),
     status |-> IF data.status.present THEN Some(data.status.v) ELSE Some(<<>>),
     nameservers |-> IF data.nameservers.present THEN Some(data.nameservers.v) ELSE Some(<<>>)]

\* A queryRdap call before it is made: steps is what the call did so far, hit
\* whether getRdapServer found the TLD in the cache, server what it returned,
\* body the body of the response awaited, cause the failure met, if any.
IdleRdap == [pc |-> "idle", call |-> "none", domain |-> <<>>, tld |-> "none", hit |-> FALSE,
             server |-> "none", body |-> NoBody, cause |-> "none", outcome |-> "none",
             result |-> NoRdapResult, steps |-> <<>>]

\* The module-level singletons after load.
InitRate ==
    /\ now = 0
    /\ queries = <<>>
    /\ lastOp = "new"
    /\ lastBool = TRUE
    /\ lastNum = 0
    /\ recLog = <<>>
    /\ tasks = [t \in 1..NTasks |-> IdleTask]
    /\ rdap = [c \in 1..NRdap |-> IdleRdap]
    /\ admitLog = <<>>
    /\ rdapServerCache = <<>>

NextLimiter ==
    \/ CanMakeQuery
    \/ RecordQuery
    \/ GetRemainingQueries
    \/ GetResetTime
    \/ Reset
    \/ LimiterTick

vars == <<limiterVars, apiVars, transportVars, zoneVars>>

----------------------------------------------------------------------------
(* SpecTransport: concurrent queryDns calls and one queryRdap call         *)

Tasks == 1..NTasks
\* The caller of a task's query: the zone walk or getDetailedDnsRecords.
PathOf(t) == IF t % 2 = 1 THEN "walk" ELSE "records"
RdapCalls == 1..NRdap
RdapDomains == {<<"example", "com">>, <<"example", "zzz">>, <<"example", "emp">>}

\* The bootstrap registry as it may be served: "com" with two servers or, after
\* a change of the registry, with one; "emp" listed without a server; "zzz"
\* not listed; or a document without services, or an undecodable body.
BootstrapListed ==
    Bootstrap(Some(<<Service({"com", "net"}, <<"s1", "s2">>), Service({"emp"}, <<>>)>>))
BootstrapChanged == Bootstrap(Some(<<Service({"com"}, <<"s2">>)>>))
BootstrapDocs == {BootstrapListed, BootstrapChanged, Bootstrap(AbsentList), Garbage}

\* The bodies an RDAP server may answer a domain query with.
FullBody ==
    DomainBody(Some(<<"example", "com">>),
               Some(<<Entity({"registrant"}, Some("Owner")), Entity({"registrar"}, Some("Reg"))>>),
               Some(<<Event("registration", Some("d1")), Event("expiration", Some("d2"))>>),
               Some(<<"active">>), Some(<<"ns1", "ns2">>))
BareBody == DomainBody(AbsentName, AbsentList, AbsentList, AbsentList, AbsentList)
RdapBodies == {FullBody, BareBody, NullBody, Garbage}

\* queryDns lines 35-46, the synchronous part before the fetch: what it leaves in
\* the window, and the limiter calls and the request it makes, in program order.
\* t is Date.now() as cleanup() reads it, t2 as getResetTime() or recordQuery()
\* reads it afterwards.
QueryDnsFetchFirst(qs, t, t2) ==
    LET cleaned == Cleanup(qs, t) IN
    IF UnderLimit(cleaned)
    THEN [admitted |-> TRUE, window |-> Recorded(cleaned, t2),
          steps |-> <<"http", "check", "record">>, resetTimeMs |-> 0]
    ELSE [admitted |-> FALSE, window |-> cleaned,
          steps |-> <<"http", "check", "reject">>, resetTimeMs |-> ResetTime(cleaned, t2)]

QueryDnsUnlimited(qs, t, t2) ==
    [admitted |-> TRUE, window |-> qs, steps |-> <<"http">>, resetTimeMs |-> 0]

QueryDnsSync(qs, t, t2) ==
    LET cleaned == Cleanup(qs, t) IN
    IF UnderLimit(cleaned)
    THEN [admitted |-> TRUE, window |-> Recorded(cleaned, t2),
          steps |-> <<"check", "record", "http">>, resetTimeMs |-> 0]
    ELSE [admitted |-> FALSE, window |-> cleaned,
          steps |-> <<"check", "reject">>, resetTimeMs |-> ResetTime(cleaned, t2)]

Finish(t, outcome) == [tasks EXCEPT ![t].pc = "done", ![t].outcome = outcome, ![t].start = 0]
\* A call that throws out of queryRdap.
FinishRdapThrowing(c, cause, message) ==
    [rdap EXCEPT ![c].pc = "thrown", ![c].cause = cause, ![c].outcome = "thrown"]

\* queryRdap returns {error: message}.
FinishRdap(c, cause, message) ==
    [rdap EXCEPT ![c].pc = "done", ![c].cause = cause, ![c].outcome = message,
                 ![c].result = RdapError(message)]

\* One call of queryDns up to its first suspension point (await fetchWithTimeout).
\* The calls of one path are numbered in the order they are made. The clock
\* may advance between the Date.now() of canMakeQuery() and the next one.
QueryDns(t) ==
    /\ tasks[t].pc = "idle"
    /\ t > 2 => tasks[t - 2].pc # "idle"
    /\ \E t2 \in {now, now + 1} :
        /\ t2 <= MaxTime
        /\ LET r == QueryDnsSync(queries, now, t2) IN
            /\ now' = t2
            /\ queries' = r.window
            /\ admitLog' = IF r.admitted THEN Append(admitLog, t2) ELSE admitLog
            /\ tasks' = [tasks EXCEPT ![t] =
                  [pc |-> IF r.admitted THEN "fetch" ELSE "done",
                   start |-> IF r.admitted THEN t2 ELSE 0,
                   outcome |-> IF r.admitted THEN "none" ELSE "RateLimited",
                   resetTimeMs |-> r.resetTimeMs,
                   lag |-> t2 - now,
                   steps |-> r.steps]]
    /\ UNCHANGED <<apiVars, zoneVars, rdap, rdapServerCache>>

\* fetch() resolves with a response whose ok flag is `ok`; the timer is cleared.
FetchResolve(t, ok) ==
    /\ tasks[t].pc = "fetch"
    /\ tasks' = IF ok THEN [tasks EXCEPT ![t].pc = "json", ![t].start = 0]
                      ELSE Finish(t, "TransportError")
    /\ UNCHANGED <<limiterVars, apiVars, zoneVars, rdap, admitLog, rdapServerCache>>

\* A transport that sends the request again when the timer fires.
FetchAbortRetries(t) ==
    /\ tasks[t].pc = "fetch"
    /\ now - tasks[t].start >= DNS_TIMEOUT
    /\ tasks' = [tasks EXCEPT ![t].start = now, ![t].steps = Append(@, "http")]
    /\ UNCHANGED <<limiterVars, apiVars, zoneVars, rdap, admitLog, rdapServerCache>>

\* The setTimeout callback aborts the fetch: fetchWithTimeout throws the timeout error.
FetchAbort(t) ==
    /\ tasks[t].pc = "fetch"
    /\ now - tasks[t].start >= DNS_TIMEOUT
    /\ tasks' = Finish(t, "Timeout")
    /\ UNCHANGED <<limiterVars, apiVars, zoneVars, rdap, admitLog, rdapServerCache>>

\* fetch() rejects for another reason (network failure): the error is rethrown.
FetchReject(t) ==
    /\ tasks[t].pc = "fetch"
    /\ tasks' = Finish(t, "NetworkError")
    /\ UNCHANGED <<limiterVars, apiVars, zoneVars, rdap, admitLog, rdapServerCache>>

\* response.json() resolves: queryDns returns the decoded response.
JsonResolve(t) ==
    /\ tasks[t].pc = "json"
    /\ tasks' = Finish(t, "response")
    /\ UNCHANGED <<limiterVars, apiVars, zoneVars, rdap, admitLog, rdapServerCache>>

\* response.json() rejects (the body is not JSON).
JsonReject(t) ==
    /\ tasks[t].pc = "json"
    /\ tasks' = Finish(t, "BodyError")
    /\ UNCHANGED <<limiterVars, apiVars, zoneVars, rdap, admitLog, rdapServerCache>>

\* queryRdap up to its first suspension point: getRdapServer answers from the
\* cache, or fetches the bootstrap registry with fetchWithTimeout.
QueryRdap(c, domain) ==
    /\ rdap[c].pc = "idle"
    /\ LET tld == GetTld(domain)
           hit == tld \in DOMAIN rdapServerCache
           server == IF hit THEN FirstServer(rdapServerCache[tld]) ELSE "none"
           called == [rdap EXCEPT ![c].domain = domain, ![c].tld = tld, ![c].hit = hit,
                                  ![c].server = server]
       IN rdap' = IF hit /\ server = "null"
                  THEN [called EXCEPT ![c].pc = "done", ![c].cause = "noServer",
                                      ![c].outcome = "RdapServerNotFound",
                                      ![c].result = RdapError("RdapServerNotFound")]
                  ELSE [called EXCEPT ![c].pc = "fetch",
                                      ![c].call = IF hit THEN "rdapDomain" ELSE "rdapBootstrap",
                                      ![c].steps = <<"http">>]
    /\ UNCHANGED <<limiterVars, apiVars, zoneVars, tasks, admitLog, rdapServerCache>>

\* The fetch of the RDAP call resolves with a response whose ok flag is `ok`
\* and whose body is `body`. getRdapServer does not look at the flag.
RdapFetchResolve(c, ok, body) ==
    /\ rdap[c].pc = "fetch"
    /\ body \in IF rdap[c].call = "rdapBootstrap" THEN BootstrapDocs ELSE RdapBodies
    /\ rdap' = IF rdap[c].call = "rdapDomain" /\ ~ok
               THEN FinishRdap(c, "status", "RdapQueryFailed")
               ELSE [rdap EXCEPT ![c].pc = "json", ![c].body = body]
    /\ UNCHANGED <<limiterVars, apiVars, zoneVars, tasks, admitLog, rdapServerCache>>

\* The fetch of the RDAP call times out or rejects: getRdapServer returns null,
\* queryRdap's catch returns the error.
RdapFetchFail(c, cause) ==
    /\ rdap[c].pc = "fetch"
    /\ rdap' = IF rdap[c].call = "rdapBootstrap"
               THEN FinishRdap(c, cause, "RdapServerNotFound")
               ELSE FinishRdap(c, cause, "RdapFailed")
    /\ UNCHANGED <<limiterVars, apiVars, zoneVars, tasks, admitLog, rdapServerCache>>

\* response.json() of the RDAP call rejects: the body is not JSON.
RdapJsonReject(c) ==
    /\ rdap[c].pc = "json"
    /\ rdap[c].body.kind = "garbage"
    /\ rdap' = IF rdap[c].call = "rdapBootstrap"
               THEN FinishRdap(c, "body", "RdapServerNotFound")
               ELSE FinishRdap(c, "body", "RdapFailed")
    /\ UNCHANGED <<limiterVars, apiVars, zoneVars, tasks, admitLog, rdapServerCache>>

\* response.json() of the RDAP call resolves: the bootstrap document is searched
\* and the domain query sent, or the domain response is parsed.
RdapJsonResolve(c) ==
    /\ rdap[c].pc = "json"
    /\ rdap[c].body.kind # "garbage"
    /\ IF rdap[c].call = "rdapBootstrap"
       THEN IF ~rdap[c].body.services.present
            THEN \* data.services is not iterable: the catch of getRdapServer
                 /\ rdap' = FinishRdap(c, "body", "RdapServerNotFound")
                 /\ UNCHANGED rdapServerCache
            ELSE LET services == rdap[c].body.services.v
                     i == FindService(services, rdap[c].tld)
                 IN IF i = 0
                    THEN /\ rdap' = FinishRdap(c, "noServer", "RdapServerNotFound")
                         /\ UNCHANGED rdapServerCache
                    ELSE /\ rdapServerCache' =
                              CacheSet(rdapServerCache, rdap[c].tld, services[i].servers)
                         /\ rdap' =
                              IF FirstServer(services[i].servers) = "null"
                              THEN [FinishRdap(c, "noServer", "RdapServerNotFound")
                                      EXCEPT ![c].server = "null"]
                              ELSE [rdap EXCEPT ![c].call = "rdapDomain", ![c].pc = "fetch",
                                                ![c].server = FirstServer(services[i].servers),
                                                ![c].body = NoBody,
                                                ![c].steps = Append(@, "http")]
       ELSE /\ rdap' = IF rdap[c].body.kind = "null"
                       THEN FinishRdap(c, "body", "RdapFailed")
                       ELSE [rdap EXCEPT ![c].pc = "done", ![c].outcome = "rdapInfo",
                                         ![c].result = ParseRdap(rdap[c].body, rdap[c].domain)]
            /\ UNCHANGED rdapServerCache
    /\ UNCHANGED <<limiterVars, apiVars, zoneVars, tasks, admitLog>>

TransportTick ==
    /\ now < MaxTime
    /\ now' = now + 1
    /\ UNCHANGED <<queries, apiVars, transportVars, zoneVars>>

NextTransport ==
    \/ \E t \in Tasks : QueryDns(t)
    \/ \E t \in Tasks, ok \in BOOLEAN : FetchResolve(t, ok)
    \/ \E t \in Tasks : FetchAbort(t)
    \/ \E t \in Tasks : FetchReject(t)
    \/ \E t \in Tasks : JsonResolve(t)
    \/ \E t \in Tasks : JsonReject(t)
    \/ \E d \in {<<"example", "com">>, <<"example", "zzz">>} : QueryRdap(1, d)
    \/ \E ok \in BOOLEAN, body \in {BootstrapListed, FullBody, Garbage} :
          RdapFetchResolve(1, ok, body)
    \/ RdapFetchFail(1, "timeout")
    \/ RdapJsonReject(1)
    \/ RdapJsonResolve(1)
    \/ TransportTick

----------------------------------------------------------------------------
(* Names, records and responses                                            *)
(* A name is the sequence of its labels, as split('.') gives them: a       *)
(* trailing dot shows as a last empty label, and "." is <<"", "">>.        *)

ROOT == <<"", "">>

\* replace(/\.$/, '')
StripDot(n) == IF Len(n) >= 2 /\ n[Len(n)] = "" THEN SubSeq(n, 1, Len(n) - 1) ELSE n

LowerLabel(l) ==
    IF l = "EXAMPLE" THEN "example" ELSE IF l = "NS1" THEN "ns1" ELSE IF l = "NS2" THEN "ns2"
    ELSE IF l = "LB" THEN "lb" ELSE l

\* toLowerCase()
ToLowerCase(n) == [i \in DOMAIN n |-> LowerLabel(n[i])]

\* x.toLowerCase().replace(/\.$/, '')
CleanName(n) == StripDot(ToLowerCase(n))

Range(s) == {s[i] : i \in DOMAIN s}

\* DnsRecord, without the TTL the walk never reads.
Rec(name, type, data) == [name |-> name, type |-> type, data |-> data]

\* DnsResponse: Answer and Authority are optional.
Resp(status, hasAnswer, answer, hasAuthority, authority) ==
    [Status |-> status, hasAnswer |-> hasAnswer, Answer |-> answer,
     hasAuthority |-> hasAuthority, Authority |-> authority]

NoResp == Resp(0 - 1, FALSE, <<>>, FALSE, <<>>)

\* records.find(record => record.type === ty): the index of the first, 0 if none.
FindType(recs, ty) ==
    LET I == {i \in DOMAIN recs : recs[i].type = ty} IN
    IF I = {} THEN 0 ELSE CHOOSE i \in I : \A j \in I : i <= j

\* resp.Answer && resp.Answer.length > 0
NonEmptyAnswer(resp) == resp.hasAnswer /\ Len(resp.Answer) > 0
NonEmptyAuthority(resp) == resp.hasAuthority /\ Len(resp.Authority) > 0

----------------------------------------------------------------------------
(* getNameservers, getCnameInfo, getZoneInfo, isZoneDelegated              *)

\* The strings the model's resolver can return as NS data, in the order of
\* Array.prototype.sort() (UTF-16 code units).
StrOrder ==
    << <<"LB", "example", "com", "">>, <<"NS2", "">>, <<"a", "root", "">>,
       <<"lb", "example", "com", "">>, <<"ns1", "">>, <<"ns2", "">> >>
Rank(n) == CHOOSE i \in DOMAIN StrOrder : StrOrder[i] = n

RECURSIVE Insert(_, _)
Insert(x, s) ==
    IF s = <<>> THEN <<x>>
    ELSE IF Rank(x) < Rank(Head(s)) THEN <<x>> \o s
    ELSE <<Head(s)>> \o Insert(x, Tail(s))

\* Array.prototype.sort()
RECURSIVE Sort(_)
Sort(s) == IF s = <<>> THEN <<>> ELSE Insert(s[Len(s)], Sort(SubSeq(s, 1, Len(s) - 1)))

\* The data of the Answer records, as the resolver returned them.
NameserversAsReturned(resp) ==
    IF NonEmptyAnswer(resp)
    THEN [i \in DOMAIN resp.Answer |-> resp.Answer[i].data]
    ELSE <<>>

\* getNameservers, after its query: every Answer record's data, lowercased, sorted.
Nameservers(resp) ==
    IF NonEmptyAnswer(resp)
    THEN Sort([i \in DOMAIN resp.Answer |-> ToLowerCase(resp.Answer[i].data)])
    ELSE <<>>

NoTarget == <<>>

\* getCnameInfo, after its query.
CnameInfo(resp) ==
    LET i == IF NonEmptyAnswer(resp) THEN FindType(resp.Answer, 5) ELSE 0 IN
    IF i > 0 THEN [isCname |-> TRUE, target |-> ToLowerCase(resp.Answer[i].data)]
             ELSE [isCname |-> FALSE, target |-> NoTarget]

Throws == [throws |-> TRUE, zoneName |-> <<>>]
Zone(zn) == [throws |-> FALSE, zoneName |-> zn]

ZoneInfoAnyOwner(resp, domain) ==
    IF resp.Status = 3 THEN Throws
    ELSE IF resp.Status = 2 /\ ~resp.hasAnswer /\ ~resp.hasAuthority THEN Throws
    ELSE IF /\ NonEmptyAnswer(resp)
            /\ FindType(resp.Answer, 6) = 0
            /\ ~(NonEmptyAuthority(resp) /\ FindType(resp.Authority, 6) > 0)
    THEN Throws
    ELSE Zone(CleanName(domain))

\* getZoneInfo lines 48-114, after its SOA query: the zone name, or a throw.
ZoneInfo(resp, domain) ==
    LET cleanDomain == CleanName(domain)
        a == IF NonEmptyAnswer(resp) THEN FindType(resp.Answer, 6) ELSE 0
        u == IF NonEmptyAuthority(resp) THEN FindType(resp.Authority, 6) ELSE 0
    IN
    IF resp.Status = 3 THEN Throws
    ELSE IF resp.Status = 2 /\ ~resp.hasAnswer /\ ~resp.hasAuthority THEN Throws
    ELSE IF NonEmptyAnswer(resp)
    THEN IF a > 0
         THEN IF CleanName(resp.Answer[a].name) # cleanDomain THEN Throws
              ELSE Zone(CleanName(resp.Answer[a].name))
         ELSE IF NonEmptyAuthority(resp)
              THEN IF u > 0
                   THEN IF CleanName(resp.Authority[u].name) # cleanDomain THEN Throws
                        ELSE Zone(CleanName(resp.Authority[u].name))
                   ELSE Throws
              ELSE Throws
    ELSE IF NonEmptyAuthority(resp)
    THEN IF u > 0
         THEN IF CleanName(resp.Authority[u].name) # cleanDomain THEN Throws
              ELSE Zone(CleanName(resp.Authority[u].name))
         ELSE Zone(cleanDomain)
    ELSE Zone(cleanDomain)

\* A delegation test that does not look at whether the sets are empty.
DelegatedWhenDisjoint(domainNS, parentNS) ==
    ~(\E i \in DOMAIN parentNS : parentNS[i] \in Range(domainNS))

\* isZoneDelegated line 129-131, after its two NS queries.
Delegated(domainNS, parentNS) ==
    /\ Len(domainNS) > 0
    /\ Len(parentNS) > 0
    /\ ~(\E i \in DOMAIN parentNS : parentNS[i] \in Range(domainNS))

----------------------------------------------------------------------------
(* The DoH resolver of the model: what it can answer for a name            *)

OwnFqdn(k) == IF k = <<"">> THEN ROOT ELSE k \o <<"">>
ParentFqdn(k) == IF Len(k) > 1 THEN Tail(k) \o <<"">> ELSE ROOT
GrandparentFqdn(k) == IF Len(k) > 2 THEN Tail(Tail(k)) \o <<"">> ELSE ROOT
SoaData == <<"soa">>
CnameTargetData == <<"LB", "example", "com", "">>

SoaResponses(k) ==
    LET own == Rec(OwnFqdn(k), 6, SoaData)
        other == Rec(ParentFqdn(k), 6, SoaData)
        cname == Rec(OwnFqdn(k), 5, CnameTargetData)
        ns == Rec(ParentFqdn(k), 2, <<"ns1", "">>)
        far == Rec(GrandparentFqdn(k), 6, SoaData)
    IN { Resp(3, FALSE, <<>>, TRUE, <<other>>),
         Resp(2, FALSE, <<>>, FALSE, <<>>),
         Resp(2, TRUE, <<>>, FALSE, <<>>),
         Resp(0, TRUE, <<own>>, FALSE, <<>>),
         Resp(0, TRUE, <<other>>, FALSE, <<>>),
         Resp(0, TRUE, <<cname>>, TRUE, <<other>>),
         Resp(0, TRUE, <<cname>>, TRUE, <<own>>),
         Resp(0, TRUE, <<cname>>, TRUE, <<ns>>),
         Resp(0, TRUE, <<cname>>, FALSE, <<>>),
         Resp(0, FALSE, <<>>, TRUE, <<own>>),
         Resp(0, FALSE, <<>>, TRUE, <<other>>),
         Resp(0, FALSE, <<>>, TRUE, <<far>>),
         Resp(0, FALSE, <<>>, TRUE, <<ns>>),
         Resp(0, FALSE, <<>>, FALSE, <<>>) }

\* The SOA answers of the resolver of two calls: an SOA of the name in Answer,
\* an SOA of another owner in Authority, NXDOMAIN, and an empty response.
SoaResponsesTwice(k) ==
    { Resp(0, TRUE, <<Rec(OwnFqdn(k), 6, SoaData)>>, FALSE, <<>>),
      Resp(0, FALSE, <<>>, TRUE, <<Rec(ParentFqdn(k), 6, SoaData)>>),
      Resp(3, FALSE, <<>>, TRUE, <<Rec(ParentFqdn(k), 6, SoaData)>>),
      Resp(0, FALSE, <<>>, FALSE, <<>>) }

NsResponses(k) ==
    IF k = <<"">>
    THEN { Resp(0, FALSE, <<>>, FALSE, <<>>),
           Resp(0, TRUE, <<Rec(ROOT, 2, <<"a", "root", "">>)>>, FALSE, <<>>) }
    ELSE { Resp(0, FALSE, <<>>, FALSE, <<>>),
           Resp(0, TRUE, <<Rec(OwnFqdn(k), 2, <<"ns1", "">>)>>, FALSE, <<>>),
           Resp(0, TRUE, <<Rec(OwnFqdn(k), 2, <<"ns2", "">>)>>, FALSE, <<>>) }

\* The Answer sections a resolver can give to an NS question: none, one NS
\* record, NS records in any order and case, and, for a name that is an
\* alias, the CNAME record alone or before the NS record.
NsAnswers(k) ==
    LET ns1 == Rec(OwnFqdn(k), 2, <<"ns1", "">>)
        ns2 == Rec(OwnFqdn(k), 2, <<"ns2", "">>)
        NS2 == Rec(OwnFqdn(k), 2, <<"NS2", "">>)
        cname == Rec(OwnFqdn(k), 5, CnameTargetData)
    IN { Resp(0, FALSE, <<>>, FALSE, <<>>),
         Resp(0, TRUE, <<ns1>>, FALSE, <<>>),
         Resp(0, TRUE, <<NS2, ns1>>, FALSE, <<>>),
         Resp(0, TRUE, <<ns2, ns1, ns2>>, FALSE, <<>>),
         Resp(0, TRUE, <<cname>>, FALSE, <<>>),
         Resp(0, TRUE, <<cname, ns1>>, FALSE, <<>>) }

CnameResponses(k) ==
    { Resp(0, FALSE, <<>>, FALSE, <<>>),
      Resp(0, TRUE, <<Rec(OwnFqdn(k), 5, CnameTargetData)>>, FALSE, <<>>) }

\* The answers the resolver can give to a query: a name keeps the SOA and NS
\* answers it was given before (names compare case-insensitively, without the
\* dot); the only CNAME questions are for the queried name.
Answers(q) ==
    LET k == CleanName(q.name) IN
    IF q.type = "SOA"
    THEN IF k = CleanName(queriedDomain) /\ probeResp # NoResp THEN {probeResp}
         ELSE IF runs.keep THEN SoaResponsesTwice(k) ELSE SoaResponses(k)
    ELSE IF q.type = "NS"
    THEN IF k \in DOMAIN nsWorld THEN {nsWorld[k]} ELSE NsResponses(k)
    ELSE {cnameWorld}

----------------------------------------------------------------------------
(* buildZoneHierarchy                                                      *)

MaxSub == 2

\* getPublicSuffixList(): the multi-label suffixes known.
PublicSuffixes == { <<"co", "uk">>, <<"org", "uk">>, <<"ac", "uk">> }

SubLabels == <<"example", "staging", "app", "deep", "deeper">>
Sub(n) == [i \in 1..n |-> SubLabels[n + 1 - i]]

\* The domains a caller passes: ".", names under com and co.uk, with and
\* without a trailing dot, and one in upper case.
Domains ==
    {ROOT}
    \cup {Sub(n) \o b : n \in 0..MaxSub, b \in {<<"com">>, <<"co", "uk">>}}
    \cup {Sub(n) \o <<"com", "">> : n \in 1..MaxSub}
    \cup {<<"EXAMPLE", "com">>}

\* Lines 164-170 and 191-195: pure functions of queriedDomain.
cleanDomain == StripDot(queriedDomain)
parts == cleanDomain
tld == <<parts[Len(parts)]>>
potentialPublicSuffix == SubSeq(parts, IF Len(parts) >= 2 THEN Len(parts) - 1 ELSE 1, Len(parts))
\* let publicSuffixMap = null
NotLoaded == [loaded |-> FALSE, set |-> {}]

GetPublicSuffixListForgetful(m) == IF m.loaded THEN {} ELSE PublicSuffixes

\* getPublicSuffixList(): the list is parsed on the first call and kept.
GetPublicSuffixList(m) == IF m.loaded THEN m.set ELSE PublicSuffixes

\* Line 170; line 167 has stored the list in publicSuffixMap.
isSpecialTLD == potentialPublicSuffix \in publicSuffixMap.set
startIndexBelowTld == Len(parts) - 2
startIndex == IF isSpecialTLD THEN Len(parts) - 3 ELSE Len(parts) - 2
\* A list that holds every candidate twice.
domainsToCheckEachTwice ==
    [j \in 1..(2 * (startIndex + 1)) |->
        SubSeq(parts, (startIndex - (((j + 1) \div 2) - 1)) + 1, Len(parts))]
domainsToCheckLongestFirst == [j \in 1..(startIndex + 1) |-> SubSeq(parts, j, Len(parts))]
domainsToCheck == [j \in 1..(startIndex + 1) |-> SubSeq(parts, (startIndex - (j - 1)) + 1, Len(parts))]

Query(name, type) == [name |-> name, type |-> type]
NoQuery == Query(<<>>, "none")
IdleNet == [query |-> NoQuery, state |-> "idle", resp |-> NoResp]
IdleWalk == [pc |-> "start", idx |-> 0, currentParent |-> 0, currentDepth |-> 0, depth |-> 0,
             checkZone |-> <<>>, checkNS |-> <<>>, parentNS |-> <<>>, isDelegated |-> FALSE]

\* A ZoneHierarchyData object; children holds the indexes of the child objects.
ZoneData(zoneName, domains, nameservers, depth, isDelegated, cnameInfo) ==
    [zoneName |-> zoneName, domains |-> domains, nameservers |-> nameservers,
     depth |-> depth, isDelegated |-> isDelegated, isCname |-> cnameInfo.isCname,
     cnameTarget |-> cnameInfo.target, children |-> <<>>]

NoCname == [isCname |-> FALSE, target |-> NoTarget]

\* root.children.push(child), whatever the parent
PushChildUnderRoot(ns, p, child) == [Append(ns, child) EXCEPT ![1].children = Append(@, Len(ns) + 1)]

\* parent.children.push(child)
PushChild(ns, p, child) == [Append(ns, child) EXCEPT ![p].children = Append(@, Len(ns) + 1)]

FoldAlsoKeepsNode(ns, p, d) ==
    PushChild([ns EXCEPT ![p].domains = Append(@, d)], p,
              ZoneData(d, <<d>>, <<>>, ns[p].depth + 1, FALSE, NoCname))

\* currentParent.domains.unshift(domainToCheck)
FoldInFront(ns, p, d) == [ns EXCEPT ![p].domains = <<d>> \o @]

\* currentParent.domains.push(domainToCheck)
Fold(ns, p, d) == [ns EXCEPT ![p].domains = Append(@, d)]

\* currentParent.isCname = true, the target left as it was
MarkCnameFlagOnly(ns, p, info) ==
    IF info.isCname THEN [ns EXCEPT ![p].isCname = TRUE] ELSE ns

\* currentParent.isCname = true; currentParent.cnameTarget = cnameInfo.target
MarkCname(ns, p, info) ==
    IF info.isCname THEN [ns EXCEPT ![p].isCname = TRUE, ![p].cnameTarget = info.target] ELSE ns

\* Line 204: idx === 0 || isDelegated (idx counts from 1 here).
CreatesNode(idx, isDelegated) == idx = 1 \/ isDelegated

FlagAsComputed(idx, isDelegated) == isDelegated

\* Line 216: isDelegated: idx > 0 && isDelegated.
DelegatedFlag(idx, isDelegated) == idx > 1 /\ isDelegated

NewZoneSameDepth(w, info) ==
    ZoneData(w.checkZone, <<w.checkZone>>, w.checkNS, w.currentDepth - 1,
             DelegatedFlag(w.idx, w.isDelegated), info)

\* Lines 211-220: newZone.
NewZone(w, info) ==
    ZoneData(w.checkZone, <<w.checkZone>>, w.checkNS, w.currentDepth,
             DelegatedFlag(w.idx, w.isDelegated), info)

\* await queryDns(...): the call is made and the function suspends.
Await(q, w) ==
    /\ net' = [query |-> q, state |-> "waiting", resp |-> NoResp]
    /\ issued' = Append(issued, q)
    /\ walk' = w
    /\ result' = result

\* The call ends: it returns root, or throws.
End(res, w) ==
    /\ net' = IdleNet
    /\ issued' = issued
    /\ walk' = [w EXCEPT !.pc = "done"]
    /\ result' = res

Settled == net.state \in {"resp", "throw"}

\* The for loop's next iteration, or return root.
NextCandidate(ns, w) ==
    /\ nodes' = ns
    /\ IF w.idx < Len(domainsToCheck)
       THEN Await(Query(domainsToCheck[w.idx + 1], "SOA"),
                  [w EXCEPT !.idx = @ + 1, !.pc = "candSOA"])
       ELSE End("tree", w)

\* A catch block that lets the failure end the call.
CatchRethrows(w) == End("Error", w) /\ nodes' = nodes

\* The inner catch block, lines 239-256, up to its getCnameInfo call.
CatchFold(w) ==
    LET d == domainsToCheck[w.idx]
        p == w.currentParent
    IN
    IF d \notin Range(nodes[p].domains)
    THEN IF d = queriedDomain
         THEN /\ nodes' = Fold(nodes, p, d)
              /\ Await(Query(queriedDomain, "CNAME"), [w EXCEPT !.pc = "catchCNAME"])
         ELSE NextCandidate(Fold(nodes, p, d), w)
    ELSE NextCandidate(nodes, w)

ProbeNotFoundOnServfail(resp) == resp.Status = 2

\* Line 140: initialCheck.Status === 3.
ProbeNotFound(resp) == resp.Status = 3

\* A descent that stops at the first child of the start node.
DeepestIsFirstChild(ns, n) == IF ns[n].children = <<>> THEN n ELSE ns[n].children[1]

\* findZoneApex lines 409-417: the zoneName of the node reached from root by
\* following the first child until a node has none.
RECURSIVE Deepest(_, _)
Deepest(ns, n) == IF ns[n].children = <<>> THEN n ELSE Deepest(ns, ns[n].children[1])

FindZoneApexRethrows(res, ns, domain) ==
    IF res = "tree" THEN [state |-> "returned", value |-> ns[Deepest(ns, 1)].zoneName]
    ELSE [state |-> "thrown", value |-> <<>>]

\* findZoneApex lines 405-425, once buildZoneHierarchy has returned or thrown.
FindZoneApex(res, ns, domain) ==
    IF res = "tree" THEN [state |-> "returned", value |-> ns[Deepest(ns, 1)].zoneName]
    ELSE [state |-> "returned", value |-> domain]

NoApexCall == [state |-> "none", value |-> <<>>]
ApexPending == [state |-> "pending", value |-> <<>>]

\* One call, outcomes not kept; and the first of two calls, outcomes kept.
OneRun == [keep |-> FALSE, n |-> 1, log |-> <<>>, first |-> <<>>]
FirstRun == [keep |-> TRUE, n |-> 1, log |-> <<>>, first |-> <<>>]

\* The outcome of a query is kept, so that the same query settles the same way again.
Logged(q, state, resp) ==
    IF runs.keep THEN [runs EXCEPT !.log = @ @@ (q :> [state |-> state, resp |-> resp])]
    ELSE runs

\* getDetailedDnsRecords lines 450-458: the record types in dispatch order.
AllRecordTypes == <<"SOA", "NS", "A", "AAAA", "CNAME", "MX", "TXT">>

\* queryDnsWithMaxTTL lines 365-369: the queryDns calls made for one type.
QueriesPerType == 3

\* A lookup that asks every type of the original domain.
QueryTargetAlwaysDomain(type, zoneApex, domain) == domain

\* Lines 451-457: SOA and NS are asked of the zone apex, the rest of the domain.
QueryTarget(type, zoneApex, domain) ==
    IF type \in {"SOA", "NS"} THEN zoneApex ELSE domain

\* How one queryDns call of the lookup stands: pending, thrown (rate limited
\* before any request, failed, or timed out), or fulfilled with a response,
\* of which the presence of Answer and the TTLs of its records are kept.
Pending == [state |-> "pending", hasAnswer |-> FALSE, ttls |-> <<>>]
Thrown(why) == [state |-> why, hasAnswer |-> FALSE, ttls |-> <<>>]
Fulfilled(hasAnswer, ttls) == [state |-> "fulfilled", hasAnswer |-> hasAnswer, ttls |-> ttls]
ThrownStates == {"rateLimited", "failed", "timeout"}

\* Math.max(...ttls) of a non-empty list.
MaxOf(ttls) == CHOOSE m \in Range(ttls) : \A x \in Range(ttls) : x <= m

\* Lines 381-392: the loop over the successful responses.
RECURSIVE KeepMax(_, _, _, _)
KeepMax(rs, i, maxTTL, maxTTLResponse) ==
    IF i > Len(rs) THEN maxTTLResponse
    ELSE IF rs[i].hasAnswer /\ Len(rs[i].ttls) > 0 /\ MaxOf(rs[i].ttls) > maxTTL
         THEN KeepMax(rs, i + 1, MaxOf(rs[i].ttls), rs[i])
         ELSE KeepMax(rs, i + 1, maxTTL, maxTTLResponse)

successfulResponses(outs) == SelectSeq(outs, LAMBDA o : o.state = "fulfilled")

\* An aggregation that fails as soon as one of the three calls has failed.
QueryDnsWithMaxTTLAllOrNothing(outs) ==
    IF Len(successfulResponses(outs)) < Len(outs)
    THEN [state |-> "rejected", value |-> Pending]
    ELSE [state |-> "fulfilled",
          value |-> KeepMax(successfulResponses(outs), 1, 0, successfulResponses(outs)[1])]

\* queryDnsWithMaxTTL lines 371-394, once its three calls have settled.
QueryDnsWithMaxTTL(outs) ==
    IF Len(successfulResponses(outs)) = 0
    THEN [state |-> "rejected", value |-> Pending]
    ELSE [state |-> "fulfilled",
          value |-> KeepMax(successfulResponses(outs), 1, 0, successfulResponses(outs)[1])]

GroupPending == [state |-> "pending", value |-> Pending]

\* Lines 460-498: the field of one type. records.soa is the first SOA record
\* of Answer; the other fields are the records of Answer of the type.
NoField == [present |-> FALSE, ttls |-> <<>>]
Field(type, group) ==
    IF group.state = "fulfilled" /\ group.value.hasAnswer
    THEN IF type = "SOA"
         THEN IF Len(group.value.ttls) > 0
              THEN [present |-> TRUE, ttls |-> <<group.value.ttls[1]>>]
              ELSE NoField
         ELSE [present |-> TRUE, ttls |-> group.value.ttls]
    ELSE NoField

\* The getDetailedDnsRecords call: its position, whether precomputedZoneApex
\* was supplied, the types looked up, the outcomes its queries may have, the
\* apex used, its queryDns calls in dispatch order, the queryDnsWithMaxTTL
\* promises and the records returned.
NoRecordsCall ==
    [pc |-> "none", given |-> FALSE, supplied |-> <<>>, types |-> <<>>, outcomes |-> {},
     zoneApex |-> <<>>, slots |-> <<>>, groups |-> <<>>, records |-> <<>>]
RecordsCalled(given, supplied, types, outcomes) ==
    [NoRecordsCall EXCEPT !.pc = "called", !.given = given, !.supplied = supplied,
                          !.types = types, !.outcomes = outcomes]

\* The queryDns calls of the g-th type, and their outcomes.
SlotsOf(g) == (g - 1) * QueriesPerType + 1 .. g * QueriesPerType
OutsOf(slots, g) == [k \in 1..QueriesPerType |-> slots[(g - 1) * QueriesPerType + k].out]
TypeOfSlot(types, i) == types[((i - 1) \div QueriesPerType) + 1]

\* buildZoneHierarchy is called: line 139.
Start ==
    /\ walk.pc = "start"
    /\ Await(Query(queriedDomain, "SOA"), [walk EXCEPT !.pc = "probe"])
    /\ UNCHANGED <<queriedDomain, cnameWorld, threw, publicSuffixMap, runs, nodes, probeResp, nsWorld, authOther>>
    /\ UNCHANGED <<limiterVars, apiVars, transportVars, recordVars>>

\* The resolver answers the awaited query and queryDns returns the response.
ResolverAnswers ==
    /\ net.state = "waiting"
    /\ net.query \notin DOMAIN runs.log
    /\ \E r \in Answers(net.query) :
         LET k == CleanName(net.query.name) IN
         /\ net' = [net EXCEPT !.state = "resp", !.resp = r]
         /\ runs' = Logged(net.query, "resp", r)
         /\ probeResp' = IF net.query.type = "SOA" /\ k = CleanName(queriedDomain)
                         THEN r ELSE probeResp
         /\ nsWorld' = IF net.query.type = "NS" /\ k \notin DOMAIN nsWorld
                       THEN nsWorld @@ (k :> r) ELSE nsWorld
    /\ UNCHANGED <<queriedDomain, cnameWorld, threw, publicSuffixMap, walk, nodes, result,
                   issued, authOther>>
    /\ UNCHANGED <<limiterVars, apiVars, transportVars, recordVars>>

\* queryDns throws: RateLimitError, the timeout error, a network error, a
\* non-success HTTP status or an undecodable body.
QueryFails ==
    /\ net.state = "waiting"
    /\ net.query \notin DOMAIN runs.log
    /\ net' = [net EXCEPT !.state = "throw"]
    /\ runs' = Logged(net.query, "throw", NoResp)
    /\ threw' = threw \cup {net.query.type}
    /\ UNCHANGED <<queriedDomain, cnameWorld, publicSuffixMap, walk, nodes, result, issued,
                   probeResp, nsWorld, authOther>>
    /\ UNCHANGED <<limiterVars, apiVars, transportVars, recordVars>>

\* A query that was settled before settles the same way.
Replay ==
    /\ net.state = "waiting"
    /\ net.query \in DOMAIN runs.log
    /\ net' = [net EXCEPT !.state = runs.log[net.query].state, !.resp = runs.log[net.query].resp]
    /\ threw' = IF net'.state = "throw" THEN threw \cup {net.query.type} ELSE threw
    /\ UNCHANGED <<queriedDomain, cnameWorld, publicSuffixMap, runs, walk, nodes, result, issued,
                   probeResp, nsWorld, authOther>>
    /\ UNCHANGED <<limiterVars, apiVars, transportVars, recordVars>>

\* The first call has ended; buildZoneHierarchy is called again with the same
\* domain, in the same process and against the same resolver.
RunAgain ==
    /\ runs.keep /\ runs.n = 1
    /\ walk.pc = "done"
    /\ runs' = [runs EXCEPT !.n = 2, !.first = <<[result |-> result, nodes |-> nodes]>>]
    /\ walk' = IdleWalk
    /\ net' = IdleNet
    /\ nodes' = <<>>
    /\ result' = "pending"
    /\ issued' = <<>>
    /\ threw' = {}
    /\ UNCHANGED <<queriedDomain, cnameWorld, publicSuffixMap, probeResp, nsWorld, authOther>>
    /\ UNCHANGED <<limiterVars, apiVars, transportVars, recordVars>>

\* Lines 139-147: the existence probe settles.
ResumeProbe ==
    /\ walk.pc = "probe" /\ Settled
    /\ IF net.state = "throw" THEN End("Error", walk)
       ELSE IF ProbeNotFound(net.resp) THEN End("DomainNotFound", walk)
       ELSE Await(Query(ROOT, "NS"), [walk EXCEPT !.pc = "rootNS"])
    /\ UNCHANGED <<queriedDomain, cnameWorld, threw, publicSuffixMap, runs, nodes, probeResp, nsWorld, authOther>>
    /\ UNCHANGED <<limiterVars, apiVars, transportVars, recordVars>>

\* Lines 147-172: the root NS query settles; root is built.
ResumeRootNS ==
    /\ walk.pc = "rootNS" /\ Settled
    /\ IF net.state = "throw"
       THEN End("Error", walk) /\ nodes' = nodes
       ELSE /\ nodes' = <<ZoneData(ROOT, <<ROOT>>, Nameservers(net.resp), 0, FALSE, NoCname)>>
            /\ IF queriedDomain = ROOT
               THEN End("tree", [walk EXCEPT !.depth = 1])
               ELSE Await(Query(tld, "SOA"), [walk EXCEPT !.depth = 1, !.pc = "tldSOA"])
    /\ publicSuffixMap' =
          IF net.state = "throw" \/ queriedDomain = ROOT THEN publicSuffixMap
          ELSE [loaded |-> TRUE, set |-> GetPublicSuffixList(publicSuffixMap)]
    /\ UNCHANGED <<queriedDomain, cnameWorld, threw, runs, probeResp, nsWorld, authOther>>
    /\ UNCHANGED <<limiterVars, apiVars, transportVars, recordVars>>

\* Line 172, getZoneInfo(tld) lines 48-116: its SOA query settles.
ResumeTldSOA ==
    /\ walk.pc = "tldSOA" /\ Settled
    /\ LET zi == IF net.state = "throw" THEN Throws ELSE ZoneInfo(net.resp, tld) IN
       IF zi.throws
       THEN End("tree", walk)
       ELSE Await(Query(zi.zoneName, "NS"), [walk EXCEPT !.pc = "tldNS"])
    /\ UNCHANGED <<queriedDomain, cnameWorld, threw, publicSuffixMap, runs, nodes, probeResp, nsWorld, authOther>>
    /\ UNCHANGED <<limiterVars, apiVars, transportVars, recordVars>>

\* Lines 172-198: getZoneInfo(tld)'s NS query settles; tldZone is built and the
\* walk starts.
ResumeTldNS ==
    /\ walk.pc = "tldNS" /\ Settled
    /\ IF net.state = "throw"
       THEN End("tree", walk) /\ nodes' = nodes
       ELSE LET tldZone == ZoneData(tld, IF isSpecialTLD THEN <<tld, potentialPublicSuffix>>
                                                          ELSE <<tld>>,
                                     Nameservers(net.resp), walk.depth, TRUE, NoCname)
                w == [walk EXCEPT !.depth = @ + 1]
            IN
            IF Len(parts) > (IF isSpecialTLD THEN 2 ELSE 1)
            THEN NextCandidate(PushChild(nodes, 1, tldZone),
                               [w EXCEPT !.currentParent = 2, !.currentDepth = w.depth, !.idx = 0])
            ELSE End("tree", w) /\ nodes' = PushChild(nodes, 1, tldZone)
    /\ UNCHANGED <<queriedDomain, cnameWorld, threw, publicSuffixMap, runs, probeResp, nsWorld, authOther>>
    /\ UNCHANGED <<limiterVars, apiVars, transportVars, recordVars>>

\* The owner of the SOA a response carries only in its Authority section, when
\* that owner is not `domain`; <<>> otherwise.
AuthorityOnlyOwner(resp, domain) ==
    LET a == IF resp.hasAnswer THEN FindType(resp.Answer, 6) ELSE 0
        u == IF resp.hasAuthority THEN FindType(resp.Authority, 6) ELSE 0
    IN
    IF a = 0 /\ u > 0 /\ CleanName(resp.Authority[u].name) # CleanName(domain)
    THEN CleanName(resp.Authority[u].name) ELSE <<>>

\* Line 201, getZoneInfo(domainToCheck) lines 48-116: its SOA query settles.
ResumeCandSOA ==
    /\ walk.pc = "candSOA" /\ Settled
    /\ LET d == domainsToCheck[walk.idx]
           zi == IF net.state = "throw" THEN Throws ELSE ZoneInfo(net.resp, d)
           o == IF net.state = "throw" THEN <<>> ELSE AuthorityOnlyOwner(net.resp, d)
       IN
       /\ authOther' = IF o # <<>> THEN authOther \cup {<<d, o, walk.currentParent>>} ELSE authOther
       /\ IF zi.throws
          THEN CatchFold(walk)
          ELSE /\ Await(Query(zi.zoneName, "NS"),
                        [walk EXCEPT !.pc = "candNS", !.checkZone = zi.zoneName])
               /\ nodes' = nodes
    /\ UNCHANGED <<queriedDomain, cnameWorld, threw, publicSuffixMap, runs, probeResp, nsWorld>>
    /\ UNCHANGED <<limiterVars, apiVars, transportVars, recordVars>>

\* Lines 201-202: getZoneInfo's NS query settles; isZoneDelegated asks for the
\* parent's nameservers.
ResumeCandNS ==
    /\ walk.pc = "candNS" /\ Settled
    /\ IF net.state = "throw"
       THEN CatchFold(walk)
       ELSE /\ Await(Query(nodes[walk.currentParent].zoneName, "NS"),
                     [walk EXCEPT !.pc = "parentNS", !.checkNS = Nameservers(net.resp)])
            /\ nodes' = nodes
    /\ UNCHANGED <<queriedDomain, cnameWorld, threw, publicSuffixMap, runs, probeResp, nsWorld, authOther>>
    /\ UNCHANGED <<limiterVars, apiVars, transportVars, recordVars>>

\* Lines 126-127: the parent's NS query settles; the candidate's is asked.
ResumeParentNS ==
    /\ walk.pc = "parentNS" /\ Settled
    /\ IF net.state = "throw"
       THEN CatchFold(walk)
       ELSE /\ Await(Query(domainsToCheck[walk.idx], "NS"),
                     [walk EXCEPT !.pc = "domainNS", !.parentNS = Nameservers(net.resp)])
            /\ nodes' = nodes
    /\ UNCHANGED <<queriedDomain, cnameWorld, threw, publicSuffixMap, runs, probeResp, nsWorld, authOther>>
    /\ UNCHANGED <<limiterVars, apiVars, transportVars, recordVars>>

\* Lines 127-131 and 204-237: isZoneDelegated returns; the candidate becomes a
\* node or is folded, up to the getCnameInfo call when it is the queried domain.
ResumeDomainNS ==
    /\ walk.pc = "domainNS" /\ Settled
    /\ IF net.state = "throw"
       THEN CatchFold(walk)
       ELSE LET d == domainsToCheck[walk.idx]
                p == walk.currentParent
                w == [walk EXCEPT !.isDelegated = Delegated(Nameservers(net.resp), walk.parentNS)]
            IN
            IF CreatesNode(w.idx, w.isDelegated)
            THEN IF d = queriedDomain
                 THEN /\ Await(Query(queriedDomain, "CNAME"), [w EXCEPT !.pc = "nodeCNAME"])
                      /\ nodes' = nodes
                 ELSE NextCandidate(PushChild(nodes, p, NewZone(w, NoCname)),
                                    [w EXCEPT !.currentParent = Len(nodes) + 1,
                                              !.currentDepth = @ + 1])
            ELSE IF d \notin Range(nodes[p].domains)
                 THEN IF d = queriedDomain
                      THEN /\ nodes' = Fold(nodes, p, d)
                           /\ Await(Query(queriedDomain, "CNAME"), [w EXCEPT !.pc = "foldCNAME"])
                      ELSE NextCandidate(Fold(nodes, p, d), w)
                 ELSE NextCandidate(nodes, w)
    /\ UNCHANGED <<queriedDomain, cnameWorld, threw, publicSuffixMap, runs, probeResp, nsWorld, authOther>>
    /\ UNCHANGED <<limiterVars, apiVars, transportVars, recordVars>>

\* Lines 208-224: getCnameInfo settles for a queried domain that becomes a node.
ResumeNodeCname ==
    /\ walk.pc = "nodeCNAME" /\ Settled
    /\ IF net.state = "throw"
       THEN CatchFold(walk)
       ELSE NextCandidate(PushChild(nodes, walk.currentParent, NewZone(walk, CnameInfo(net.resp))),
                          [walk EXCEPT !.currentParent = Len(nodes) + 1,
                                       !.currentDepth = @ + 1])
    /\ UNCHANGED <<queriedDomain, cnameWorld, threw, publicSuffixMap, runs, probeResp, nsWorld, authOther>>
    /\ UNCHANGED <<limiterVars, apiVars, transportVars, recordVars>>

\* Lines 231-236: getCnameInfo settles for a queried domain that was folded; a
\* throw lands in the catch block, which finds the domain already folded.
ResumeFoldCname ==
    /\ walk.pc = "foldCNAME" /\ Settled
    /\ IF net.state = "throw"
       THEN CatchFold(walk)
       ELSE NextCandidate(MarkCname(nodes, walk.currentParent, CnameInfo(net.resp)), walk)
    /\ UNCHANGED <<queriedDomain, cnameWorld, threw, publicSuffixMap, runs, probeResp, nsWorld, authOther>>
    /\ UNCHANGED <<limiterVars, apiVars, transportVars, recordVars>>

\* Lines 245-253: the catch block's getCnameInfo settles; a throw is ignored.
ResumeCatchCname ==
    /\ walk.pc = "catchCNAME" /\ Settled
    /\ IF net.state = "throw"
       THEN NextCandidate(nodes, walk)
       ELSE NextCandidate(MarkCname(nodes, walk.currentParent, CnameInfo(net.resp)), walk)
    /\ UNCHANGED <<queriedDomain, cnameWorld, threw, publicSuffixMap, runs, probeResp, nsWorld, authOther>>
    /\ UNCHANGED <<limiterVars, apiVars, transportVars, recordVars>>

----------------------------------------------------------------------------
(* Specifications                                                          *)

ZoneUnused ==
    /\ queriedDomain = <<>>
    /\ walk = IdleWalk
    /\ net = IdleNet
    /\ nodes = <<>>
    /\ result = "none"
    /\ issued = <<>>
    /\ probeResp = NoResp
    /\ nsWorld = <<>>
    /\ authOther = {}
    /\ cnameWorld = NoResp
    /\ threw = {}
    /\ publicSuffixMap = NotLoaded
    /\ runs = OneRun
    /\ apexCall = NoApexCall
    /\ rec = NoRecordsCall

InitLimiter == InitRate /\ ZoneUnused
SpecLimiter == InitLimiter /\ [][NextLimiter]_vars

InitTransport == InitRate /\ ZoneUnused
SpecTransport == InitTransport /\ [][NextTransport]_vars

\* The queryDns calls with their timers. The clock runs on (up to MaxTime) and
\* a timer that is due fires unless the fetch settles first; nothing obliges
\* the resolver to answer or to finish sending a body.
NextTimeout ==
    \/ \E t \in Tasks : QueryDns(t)
    \/ \E t \in Tasks, ok \in BOOLEAN : FetchResolve(t, ok)
    \/ \E t \in Tasks : FetchAbort(t)
    \/ \E t \in Tasks : FetchReject(t)
    \/ \E t \in Tasks : JsonResolve(t)
    \/ \E t \in Tasks : JsonReject(t)
    \/ TransportTick
SpecTimeout ==
    /\ InitTransport
    /\ [][NextTimeout]_vars
    /\ WF_vars(TransportTick)
    /\ \A t \in Tasks : WF_vars(FetchAbort(t))

\* The queryRdap calls alone, NRdap of them, concurrent or one after another.
InitRdap == InitRate /\ ZoneUnused
NextRdap ==
    \/ \E c \in RdapCalls, d \in RdapDomains : QueryRdap(c, d)
    \/ \E c \in RdapCalls, ok \in BOOLEAN, body \in BootstrapDocs \cup RdapBodies :
          RdapFetchResolve(c, ok, body)
    \/ \E c \in RdapCalls, cause \in {"timeout", "network"} : RdapFetchFail(c, cause)
    \/ \E c \in RdapCalls : RdapJsonReject(c)
    \/ \E c \in RdapCalls : RdapJsonResolve(c)
SpecRdap == InitRdap /\ [][NextRdap]_vars

\* The parse of a domain response, for every shape of the decoded object: each
\* of entities, events, status, nameservers and ldhName present or missing,
\* entities with or without a registrar and its name, events with or without
\* either action and date.
ParseDomain == <<"example", "zzz">>
EntityChoices ==
    {AbsentList, Some(<<>>), Some(<<Entity({"registrant"}, Some("Owner"))>>),
     Some(<<Entity({"registrant"}, Some("Owner")), Entity({"registrar"}, Some("Reg"))>>),
     Some(<<Entity({"registrar"}, Absent), Entity({"registrar"}, Some("Reg"))>>)}
EventChoices ==
    {AbsentList, Some(<<Event("registration", Some("d1")), Event("expiration", Some("d2"))>>),
     Some(<<Event("registration", Some("d1"))>>),
     Some(<<Event("last changed", Some("d3")), Event("expiration", Some("d2"))>>),
     Some(<<Event("registration", Absent), Event("registration", Some("d1"))>>)}
AllRdapBodies ==
    {DomainBody(l, en, ev, st, ns) :
        l \in {AbsentName, Some(<<"example", "com">>)}, en \in EntityChoices,
        ev \in EventChoices, st \in {AbsentList, Some(<<"active">>)},
        ns \in {AbsentList, Some(<<"ns1", "ns2">>)}} \cup {NullBody}

InitParse ==
    /\ InitRate!1
    /\ InitRate!2
    /\ InitRate!3
    /\ InitRate!4
    /\ InitRate!5
    /\ InitRate!6
    /\ InitRate!7
    /\ InitRate!9
    /\ rdapServerCache = (GetTld(ParseDomain) :> <<"s1">>)
    /\ \E body \in AllRdapBodies :
          rdap = [c \in RdapCalls |->
                    IF c = 1
                    THEN [IdleRdap EXCEPT !.pc = "json", !.call = "rdapDomain",
                                          !.domain = ParseDomain, !.tld = GetTld(ParseDomain),
                                          !.hit = TRUE, !.server = "s1", !.body = body,
                                          !.steps = <<"http">>]
                    ELSE IdleRdap]
    /\ ZoneUnused
NextParse == RdapJsonResolve(1)
SpecParse == InitParse /\ [][NextParse]_vars

\* One buildZoneHierarchy call, for any domain of Domains.
Init ==
    /\ InitRate
    /\ queriedDomain \in Domains
    /\ walk = IdleWalk
    /\ net = IdleNet
    /\ nodes = <<>>
    /\ result = "pending"
    /\ issued = <<>>
    /\ probeResp = NoResp
    /\ nsWorld = <<>>
    /\ authOther = {}
    /\ cnameWorld \in CnameResponses(CleanName(queriedDomain))
    /\ threw = {}
    /\ publicSuffixMap = NotLoaded
    /\ runs = OneRun
    /\ apexCall = NoApexCall
    /\ rec = NoRecordsCall

Next ==
    \/ Start
    \/ ResolverAnswers
    \/ QueryFails
    \/ ResumeProbe
    \/ ResumeRootNS
    \/ ResumeTldSOA
    \/ ResumeTldNS
    \/ ResumeCandSOA
    \/ ResumeCandNS
    \/ ResumeParentNS
    \/ ResumeDomainNS
    \/ ResumeNodeCname
    \/ ResumeFoldCname
    \/ ResumeCatchCname

Spec == Init /\ [][Next]_vars

\* The same call when every query it awaits settles, with a response or a
\* failure, and the function is resumed each time.
LiveDomains == {ROOT, <<"example", "co", "uk">>} \cup {Sub(n) \o <<"com">> : n \in 0..MaxSub}
InitLive == Init /\ queriedDomain \in LiveDomains
SpecLive == InitLive /\ [][Next]_vars /\ WF_vars(Next)

\* findZoneApex lines 405-425: buildZoneHierarchy has settled; the apex, or the
\* domain as it was passed, is returned.
FindZoneApexReturns ==
    /\ apexCall.state = "pending"
    /\ walk.pc = "done"
    /\ apexCall' = FindZoneApex(result, nodes, queriedDomain)
    /\ UNCHANGED <<queriedDomain, walk, net, nodes, result, issued, probeResp, nsWorld,
                   authOther, cnameWorld, threw, publicSuffixMap, runs, rec>>
    /\ UNCHANGED <<limiterVars, apiVars, transportVars>>

\* getDetailedDnsRecords lines 447-458 with queryDnsWithMaxTTL lines 365-369
\* and queryDns lines 36-57: once the apex is known, every queryDns call of
\* every type is made in one run; each either throws RateLimitError at once
\* or sends its request.
RecordsDispatch ==
    /\ rec.pc = "called"
    /\ rec.given \/ apexCall.state = "returned"
    /\ LET zoneApex == IF rec.given THEN rec.supplied ELSE apexCall.value
           n == Len(rec.types) * QueriesPerType
       IN \E admitted \in SUBSET (1..n) :
            rec' = [rec EXCEPT
                     !.pc = "awaiting",
                     !.zoneApex = zoneApex,
                     !.slots = [i \in 1..n |->
                                 [name |-> QueryTarget(TypeOfSlot(rec.types, i), zoneApex, queriedDomain),
                                  type |-> TypeOfSlot(rec.types, i),
                                  out |-> IF i \in admitted THEN Pending ELSE Thrown("rateLimited")]],
                     !.groups = [g \in 1..Len(rec.types) |-> GroupPending]]
    /\ UNCHANGED <<queriedDomain, walk, net, nodes, result, issued, probeResp, nsWorld,
                   authOther, cnameWorld, threw, publicSuffixMap, runs, apexCall>>
    /\ UNCHANGED <<limiterVars, apiVars, transportVars>>

\* One request of the lookup settles: queryDns returns the response, or throws
\* (network error, bad status, undecodable body, or the timeout).
SlotSettles ==
    /\ rec.pc = "awaiting"
    /\ \E i \in 1..Len(rec.slots) : \E o \in rec.outcomes :
         /\ rec.slots[i].out.state = "pending"
         /\ rec' = [rec EXCEPT !.slots[i].out = o]
    /\ UNCHANGED <<queriedDomain, walk, net, nodes, result, issued, probeResp, nsWorld,
                   authOther, cnameWorld, threw, publicSuffixMap, runs, apexCall>>
    /\ UNCHANGED <<limiterVars, apiVars, transportVars>>

\* queryDnsWithMaxTTL lines 371-394: Promise.allSettled of the three calls of
\* one type has resolved.
GroupResumes ==
    /\ rec.pc = "awaiting"
    /\ \E g \in 1..Len(rec.types) :
         /\ rec.groups[g].state = "pending"
         /\ \A i \in SlotsOf(g) : rec.slots[i].out.state # "pending"
         /\ rec' = [rec EXCEPT !.groups[g] = QueryDnsWithMaxTTL(OutsOf(rec.slots, g))]
    /\ UNCHANGED <<queriedDomain, walk, net, nodes, result, issued, probeResp, nsWorld,
                   authOther, cnameWorld, threw, publicSuffixMap, runs, apexCall>>
    /\ UNCHANGED <<limiterVars, apiVars, transportVars>>

\* getDetailedDnsRecords lines 460-504: Promise.allSettled of the types has
\* resolved; the fields are filled in and records is returned.
RecordsReturn ==
    /\ rec.pc = "awaiting"
    /\ \A g \in 1..Len(rec.types) : rec.groups[g].state # "pending"
    /\ rec' = [rec EXCEPT !.pc = "returned",
                          !.records = [g \in 1..Len(rec.types) |-> Field(rec.types[g], rec.groups[g])]]
    /\ UNCHANGED <<queriedDomain, walk, net, nodes, result, issued, probeResp, nsWorld,
                   authOther, cnameWorld, threw, publicSuffixMap, runs, apexCall>>
    /\ UNCHANGED <<limiterVars, apiVars, transportVars>>

\* One findZoneApex call, for any domain of Domains.
InitApex ==
    /\ InitRate
    /\ queriedDomain \in Domains
    /\ walk = IdleWalk
    /\ net = IdleNet
    /\ nodes = <<>>
    /\ result = "pending"
    /\ issued = <<>>
    /\ probeResp = NoResp
    /\ nsWorld = <<>>
    /\ authOther = {}
    /\ cnameWorld \in CnameResponses(CleanName(queriedDomain))
    /\ threw = {}
    /\ publicSuffixMap = NotLoaded
    /\ runs = OneRun
    /\ apexCall = ApexPending
    /\ rec = NoRecordsCall

NextApex ==
    \/ Next
    \/ FindZoneApexReturns

SpecApex == InitApex /\ [][NextApex]_vars

\* Two buildZoneHierarchy calls for one domain, one after the other, every
\* query settling in the second call as it did in the first.
TwiceDomains ==
    {ROOT, <<"co", "uk">>, <<"example", "co", "uk">>, <<"staging", "example", "com">>}

InitTwice ==
    /\ InitRate
    /\ queriedDomain \in TwiceDomains
    /\ walk = IdleWalk
    /\ net = IdleNet
    /\ nodes = <<>>
    /\ result = "pending"
    /\ issued = <<>>
    /\ probeResp = NoResp
    /\ nsWorld = <<>>
    /\ authOther = {}
    /\ cnameWorld \in CnameResponses(CleanName(queriedDomain))
    /\ threw = {}
    /\ publicSuffixMap = NotLoaded
    /\ runs = FirstRun
    /\ apexCall = NoApexCall
    /\ rec = NoRecordsCall

NextTwice ==
    \/ Next
    \/ Replay
    \/ RunAgain

SpecTwice == InitTwice /\ [][NextTwice]_vars

\* One buildZoneHierarchy call for a name two labels below com, against a
\* resolver whose NS record sets, for com and the
\* names below it, hold records in any order and case and of other types.
NsDomain == <<"staging", "example", "com">>
NsNames == {<<"com">>, <<"example", "com">>, <<"staging", "example", "com">>}

InitNs ==
    /\ InitRate
    /\ queriedDomain = NsDomain
    /\ walk = IdleWalk
    /\ net = IdleNet
    /\ nodes = <<>>
    /\ result = "pending"
    /\ issued = <<>>
    /\ probeResp = Resp(0, TRUE, <<Rec(OwnFqdn(NsDomain), 6, SoaData)>>, FALSE, <<>>)
    /\ \E w \in [NsNames -> UNION {NsAnswers(k) : k \in NsNames}] :
          /\ \A k \in NsNames : w[k] \in NsAnswers(k)
          /\ nsWorld = w @@ (<<"">> :> Resp(0, TRUE, <<Rec(ROOT, 2, <<"a", "root", "">>)>>, FALSE, <<>>))
    /\ authOther = {}
    /\ cnameWorld \in CnameResponses(CleanName(queriedDomain))
    /\ threw = {}
    /\ publicSuffixMap = NotLoaded
    /\ runs = OneRun
    /\ apexCall = NoApexCall
    /\ rec = NoRecordsCall

NextNs ==
    \/ Start
    \/ ResolverAnswers
    \/ QueryFails
    \/ ResumeProbe
    \/ ResumeRootNS
    \/ ResumeTldSOA
    \/ ResumeTldNS
    \/ ResumeCandSOA
    \/ ResumeCandNS
    \/ ResumeParentNS
    \/ ResumeDomainNS
    \/ ResumeNodeCname
    \/ ResumeFoldCname
    \/ ResumeCatchCname

SpecNs == InitNs /\ [][NextNs]_vars

\* One getDetailedDnsRecords call. The types looked up are a part of the
\* seven, and the outcomes of a request are drawn from a small set.
TypeChoices == {<<"SOA", "A">>, <<"NS", "AAAA">>, <<"CNAME", "MX">>, <<"TXT">>}
WalkTypeChoices == {<<"SOA">>, <<"A">>}
RecordOutcomes == {Thrown("failed"), Thrown("timeout"), Fulfilled(FALSE, <<>>), Fulfilled(TRUE, <<1>>)}
WalkRecordOutcomes == {Thrown("failed"), Fulfilled(TRUE, <<1>>)}
RecordDomain == <<"staging", "example", "com">>
SuppliedApex == <<"example", "com">>
UnusedWalk == [IdleWalk EXCEPT !.pc = "unused"]

InitRecords ==
    /\ InitRate
    /\ queriedDomain = RecordDomain
    /\ nodes = <<>>
    /\ net = IdleNet
    /\ issued = <<>>
    /\ probeResp = NoResp
    /\ nsWorld = <<>>
    /\ authOther = {}
    /\ threw = {}
    /\ publicSuffixMap = NotLoaded
    /\ runs = FirstRun
    /\ \/ /\ walk = UnusedWalk
          /\ result = "none"
          /\ cnameWorld = NoResp
          /\ apexCall = NoApexCall
          /\ \E types \in TypeChoices : rec = RecordsCalled(TRUE, SuppliedApex, types, RecordOutcomes)
       \/ /\ walk = IdleWalk
          /\ result = "pending"
          /\ cnameWorld \in CnameResponses(CleanName(queriedDomain))
          /\ apexCall = ApexPending
          /\ \E types \in WalkTypeChoices : rec = RecordsCalled(FALSE, <<>>, types, WalkRecordOutcomes)

NextRecords ==
    \/ Next
    \/ Replay
    \/ FindZoneApexReturns
    \/ RecordsDispatch
    \/ SlotSettles
    \/ GroupResumes
    \/ RecordsReturn

SpecRecords == InitRecords /\ [][NextRecords]_vars

\* The three queries of one type with every kind of outcome, TTL 0 included.
MaxTtl == 2
TtlOutcomes ==
    {Thrown("failed"), Fulfilled(FALSE, <<>>), Fulfilled(TRUE, <<>>)}
        \cup {Fulfilled(TRUE, <<t>>) : t \in 0..MaxTtl}

InitMaxTTL ==
    /\ InitRate
    /\ queriedDomain = RecordDomain
    /\ nodes = <<>>
    /\ net = IdleNet
    /\ issued = <<>>
    /\ probeResp = NoResp
    /\ nsWorld = <<>>
    /\ authOther = {}
    /\ threw = {}
    /\ publicSuffixMap = NotLoaded
    /\ runs = OneRun
    /\ walk = UnusedWalk
    /\ result = "none"
    /\ cnameWorld = NoResp
    /\ apexCall = NoApexCall
    /\ rec = RecordsCalled(TRUE, SuppliedApex, <<"SOA">>, TtlOutcomes)

NextMaxTTL ==
    \/ RecordsDispatch
    \/ SlotSettles
    \/ GroupResumes
    \/ RecordsReturn

SpecMaxTTL == InitMaxTTL /\ [][NextMaxTTL]_vars


----------------------------------------------------------------------------
(* Properties of the rate limiter and the transport                        *)

\* Age of a timestamp, and the timestamps of a sequence still inside the window.
Fresh(qs) == SelectSeq(qs, LAMBDA ts : now - ts < RATE_LIMIT_WINDOW_MS)
CountAt(log, T) ==
    Cardinality({i \in DOMAIN log : log[i] <= T /\ T - log[i] < RATE_LIMIT_WINDOW_MS})
Sent(t) == \E i \in DOMAIN tasks[t].steps : tasks[t].steps[i] = "http"

\* C2: queryDns consults the limiter first. A rejected call fails with RateLimited
\* having recorded nothing and sent nothing; an admitted call has recorded its
\* timestamp before sending its request, and the timestamp stays in the window
\* whatever the request's outcome (until it ages out of the window).
C2_LimiterBeforeRequest ==
    /\ \A t \in Tasks :
         /\ tasks[t].outcome = "RateLimited" <=> tasks[t].steps = <<"check", "reject">>
         /\ tasks[t].pc # "idle" /\ tasks[t].outcome # "RateLimited"
               => tasks[t].steps = <<"check", "record", "http">>
    /\ Fresh(admitLog) = Fresh(queries)

C2_Witness ==
    /\ \E t \in Tasks : tasks[t].outcome = "RateLimited"
    /\ \E t \in Tasks : tasks[t].outcome = "Timeout"
    /\ \E t \in Tasks : tasks[t].outcome = "response"
    /\ Len(Fresh(queries)) = RATE_LIMIT_MAX_QUERIES

\* C3: once maxQueries timestamps have been recorded within the window,
\* canMakeQuery() returns false; once windowMs has elapsed past the oldest of
\* exactly maxQueries recorded timestamps, canMakeQuery() returns true again.
C3_AdmitFollowsWindow ==
    lastOp = "canMakeQuery" =>
        /\ CountAt(recLog, now) >= RATE_LIMIT_MAX_QUERIES => lastBool = FALSE
        /\ (/\ Len(recLog) = RATE_LIMIT_MAX_QUERIES
            /\ now - recLog[1] >= RATE_LIMIT_WINDOW_MS) => lastBool = TRUE

C3_Witness ==
    /\ lastOp = "canMakeQuery"
    /\ lastBool = TRUE
    /\ Len(recLog) = RATE_LIMIT_MAX_QUERIES
    /\ now - recLog[1] = RATE_LIMIT_WINDOW_MS
    /\ now - recLog[RATE_LIMIT_MAX_QUERIES] < RATE_LIMIT_WINDOW_MS

\* C4 as stated: canMakeQuery() drops exactly the timestamps older than windowMs
\* (now - timestamp > windowMs) and returns whether fewer than maxQueries remain;
\* recordQuery() and getResetTime() purge nothing.
C4_PurgesOlderThanWindow ==
    [][/\ lastOp' \in {"canMakeQuery", "getRemainingQueries"}
          => queries' = SelectSeq(queries, LAMBDA ts : ~(now - ts > RATE_LIMIT_WINDOW_MS))
       /\ lastOp' = "canMakeQuery" => lastBool' = (Len(queries') < RATE_LIMIT_MAX_QUERIES)
       /\ lastOp' = "recordQuery" => queries' = Append(queries, now)
       /\ lastOp' = "getResetTime" => queries' = queries]_vars

\* C4 amended: canMakeQuery() drops exactly the timestamps at least windowMs old
\* (now - timestamp >= windowMs) and returns whether fewer than maxQueries remain;
\* getRemainingQueries() purges the same way; recordQuery() and getResetTime()
\* purge nothing.
C4_PurgesAtWindowAge ==
    [][/\ lastOp' \in {"canMakeQuery", "getRemainingQueries"}
          => queries' = SelectSeq(queries, LAMBDA ts : ~(now - ts >= RATE_LIMIT_WINDOW_MS))
       /\ lastOp' = "canMakeQuery" => lastBool' = (Len(queries') < RATE_LIMIT_MAX_QUERIES)
       /\ lastOp' = "recordQuery" => queries' = Append(queries, now)
       /\ lastOp' = "getResetTime" => queries' = queries]_vars

\* A recordQuery() call has just run on a window holding a stale timestamp, which it kept.
C4_Witness ==
    /\ lastOp = "recordQuery"
    /\ Len(queries) >= 2
    /\ now - queries[1] >= RATE_LIMIT_WINDOW_MS

\* C5: at every instant T, the admitted queries whose timestamps lie in the
\* window trailing T number at most maxQueries (the check and the recording of
\* one queryDns call are one step: no other call runs between them).
C5_WindowNeverExceeded ==
    \A T \in 0..now : CountAt(admitLog, T) <= RATE_LIMIT_MAX_QUERIES

\* The window is full, one concurrent call was rejected, and one admitted call
\* is still waiting for its response.
C5_Witness ==
    /\ CountAt(admitLog, now) = RATE_LIMIT_MAX_QUERIES
    /\ \E t \in Tasks : tasks[t].outcome = "RateLimited"
    /\ \E t \in Tasks : tasks[t].pc = "fetch"

----------------------------------------------------------------------------
(* Properties of the zone walk                                             *)

\* The object the step has just pushed under the current parent, if it is a
\* node named after d that carries the flag.
BecomesNode(d, flag) ==
    /\ Len(nodes') = Len(nodes) + 1
    /\ nodes'[Len(nodes')].zoneName = CleanName(d)
    /\ nodes'[Len(nodes')].isDelegated = flag
    /\ Len(nodes') \in Range(nodes'[walk.currentParent].children)

NsDisjoint(a, b) == Range(a) \cap Range(b) = {}
FoldedCandidates(p) == Range(nodes[p].domains) \cap Range(domainsToCheck)

\* C1: when the existence probe (the first query, SOA for the full domain) is
\* answered with status 3, the call fails with DomainNotFound, has built no
\* node of a tree, and the probe is the only query it issued.
C1_NxdomainFailsBeforeTree ==
    (walk.pc \notin {"start", "probe"} /\ probeResp # NoResp /\ probeResp.Status = 3) =>
        /\ result = "DomainNotFound"
        /\ walk.pc = "done"
        /\ nodes = <<>>
        /\ issued = <<Query(queriedDomain, "SOA")>>

C1_Witness ==
    /\ result = "DomainNotFound"
    /\ probeResp.Status = 3
    /\ Len(queriedDomain) >= 3

\* C7: no name in a node's domains is the zoneName of another node, and no
\* name folded into a node's domains is that node's zoneName: a candidate that
\* became a node was not folded, a folded candidate did not become a node.
C7_FoldedNeverNode ==
    \A p \in DOMAIN nodes : \A c \in DOMAIN nodes : \A i \in DOMAIN nodes[p].domains :
        (c # p \/ i > 1) => CleanName(nodes[p].domains[i]) # CleanName(nodes[c].zoneName)

\* A returned tree in which a node holds a folded candidate and has a child node.
C7_Witness ==
    /\ result = "tree"
    /\ \E p \in DOMAIN nodes : FoldedCandidates(p) # {} /\ nodes[p].children # <<>> /\ p > 1

\* C8: in a returned tree the root has depth 0, every other node is the child
\* of exactly one node, and a child's depth is its parent's depth plus 1.
C8_DepthFollowsParent ==
    result = "tree" =>
        /\ nodes[1].depth = 0
        /\ \A c \in DOMAIN nodes : c > 1 =>
             Cardinality({p \in DOMAIN nodes : c \in Range(nodes[p].children)}) = 1
        /\ \A p \in DOMAIN nodes : \A c \in Range(nodes[p].children) :
             nodes[c].depth = nodes[p].depth + 1

\* A returned tree where the first candidate was folded and a later one became a node.
C8_Witness ==
    /\ result = "tree"
    /\ Len(nodes) = 3
    /\ FoldedCandidates(2) # {}
    /\ nodes[3].depth = 2

\* C9 as stated: whenever the candidate's NS set and the current parent zone's
\* NS set are disjoint, the candidate becomes a node with isDelegated = true
\* (after the CNAME lookup, when the candidate is the queried domain).
C9_DisjointBecomesDelegatedNode ==
    [][LET d == domainsToCheck[walk.idx] IN
       /\ (/\ walk.pc = "domainNS" /\ net.state = "resp"
           /\ NsDisjoint(Nameservers(net.resp), walk.parentNS))
             => BecomesNode(d, TRUE) \/ walk'.pc = "nodeCNAME"
       /\ (/\ walk.pc = "nodeCNAME" /\ net.state = "resp"
           /\ NsDisjoint(walk.checkNS, walk.parentNS))
             => BecomesNode(d, TRUE)]_vars

\* C9 amended: a candidate after the first whose lookups resolved and whose NS
\* set and the current parent's NS set are both non-empty and share no
\* nameserver becomes a child node of the current parent with isDelegated =
\* true; the first candidate becomes a node with isDelegated = false whatever
\* the NS sets; when the candidate is the queried domain the node is created
\* only once its CNAME lookup resolved, and a failed lookup folds it instead.
C9_NonFirstDisjointBecomesDelegatedNode ==
    [][LET d == domainsToCheck[walk.idx]
           domainNS == Nameservers(net.resp)
           apart == /\ domainNS # <<>> /\ walk.parentNS # <<>>
                    /\ NsDisjoint(domainNS, walk.parentNS)
       IN
       /\ (walk.pc = "domainNS" /\ net.state = "resp" /\ d # queriedDomain) =>
             /\ (walk.idx > 1 /\ apart) => BecomesNode(d, TRUE)
             /\ (walk.idx > 1 /\ ~apart) => Len(nodes') = Len(nodes)
             /\ walk.idx = 1 => BecomesNode(d, FALSE)
       /\ (walk.pc = "domainNS" /\ net.state = "resp" /\ d = queriedDomain) =>
             /\ Len(nodes') = Len(nodes)
             /\ walk'.pc = "nodeCNAME" <=> (walk.idx = 1 \/ apart)
       /\ (walk.pc = "nodeCNAME" /\ net.state = "resp") => BecomesNode(d, walk.idx > 1)
       /\ (walk.pc = "nodeCNAME" /\ net.state = "throw") =>
             /\ Len(nodes') = Len(nodes)
             /\ d \in Range(nodes'[walk.currentParent].domains)]_vars

\* A returned tree whose first candidate is a node not flagged delegated and
\* whose second candidate is a delegated node under it.
C9_Witness ==
    /\ result = "tree"
    /\ Len(nodes) = 4
    /\ ~nodes[3].isDelegated
    /\ nodes[4].isDelegated
    /\ NsDisjoint(nodes[3].nameservers, nodes[4].nameservers)
    /\ nodes[3].children = <<4>>

\* C10 as stated: a candidate S whose SOA response carries an SOA only in
\* Authority, owned by another name O, is in the domains of the node of O (the
\* node named O or, reading it widely, the node whose domains hold O) and has
\* no node of its own.
C10_FoldedIntoOwner ==
    \A t \in authOther :
        /\ \E n \in DOMAIN nodes :
              /\ \/ CleanName(nodes[n].zoneName) = t[2]
                 \/ \E i \in DOMAIN nodes[n].domains : CleanName(nodes[n].domains[i]) = t[2]
              /\ t[1] \in Range(nodes[n].domains)
        /\ \A n \in DOMAIN nodes : CleanName(nodes[n].zoneName) # CleanName(t[1])

\* C10 amended: such a candidate S is in the domains of the node that was the
\* current parent when S was examined (the deepest node created so far, which
\* is the node of O only if O became a node), and has no node of its own.
C10_FoldedIntoCurrentParent ==
    \A t \in authOther :
        /\ t[1] \in Range(nodes[t[3]].domains)
        /\ \A n \in DOMAIN nodes : CleanName(nodes[n].zoneName) # CleanName(t[1])

\* A returned tree where S was folded into the node of its SOA's owner, below the TLD.
C10_Witness ==
    /\ result = "tree"
    /\ \E t \in authOther :
          /\ t[3] > 2
          /\ nodes[t[3]].zoneName = t[2]
          /\ t[1] \in Range(nodes[t[3]].domains)

\* Whether a CNAME query of the call has thrown.
cnameThrew == "CNAME" \in threw

\* The nodes whose domains hold the name, compared without case and final dot.
Owners(name) ==
    {n \in DOMAIN nodes :
        \E i \in DOMAIN nodes[n].domains : CleanName(nodes[n].domains[i]) = CleanName(name)}

\* isCname = true and cnameTarget = the answer's target, lowercased, final dot kept.
MarkedWith(n, resp) ==
    /\ nodes[n].isCname
    /\ nodes[n].cnameTarget = ToLowerCase(resp.Answer[FindType(resp.Answer, 5)].data)

\* C11 as stated: in a returned tree for a queried name below the TLD (written
\* with or without a final dot) for which the resolver holds a CNAME answer and
\* no CNAME query failed, the node owning the name has isCname = true and the
\* lowercased target.
C11_CnameAnswerMarksOwner ==
    (/\ result = "tree"
     /\ Len(domainsToCheck) > 0
     /\ CnameInfo(cnameWorld).isCname
     /\ ~cnameThrew
     /\ Owners(queriedDomain) # {})
        => \E n \in Owners(queriedDomain) : MarkedWith(n, cnameWorld)

\* What holds of the code: the marking is made whenever the CNAME query is
\* actually issued and answered, which needs the queried name to equal a
\* candidate, character for character.
C11_MarkedWhenCnameQueried ==
    (/\ result = "tree"
     /\ CnameInfo(cnameWorld).isCname
     /\ ~cnameThrew
     /\ \E i \in DOMAIN issued : issued[i].type = "CNAME")
        => /\ issued[Len(issued)] = Query(queriedDomain, "CNAME")
           /\ queriedDomain = domainsToCheck[Len(domainsToCheck)]
           /\ \E n \in Owners(queriedDomain) : MarkedWith(n, cnameWorld)

\* A folded queried name whose parent node carries the CNAME mark, and a
\* queried name that became a delegated node carrying it.
C11_Witness ==
    /\ result = "tree"
    /\ \E n \in Owners(queriedDomain) :
          /\ MarkedWith(n, cnameWorld)
          /\ nodes[n].cnameTarget = <<"lb", "example", "com", "">>
          /\ nodes[n].zoneName # CleanName(queriedDomain)

\* The candidate one label below the public suffix.
BelowSuffix == IF Len(parts) >= 3 THEN SubSeq(parts, Len(parts) - 2, Len(parts)) ELSE <<>>

\* C12 as stated: under a known two-label public suffix, in the returned tree
\* the TLD node is named by the rightmost label, its domains are exactly
\* [TLD, suffix], the first candidate is the name one label below the suffix,
\* and the suffix is never queried as a candidate and never a node.
C12_SuffixDomainsExactly ==
    (result = "tree" /\ isSpecialTLD /\ Len(nodes) >= 2) =>
        /\ nodes[2].zoneName = tld
        /\ nodes[2].domains = <<tld, potentialPublicSuffix>>
        /\ Len(domainsToCheck) > 0 => domainsToCheck[1] = BelowSuffix
        /\ \A i \in DOMAIN issued : i > 1 => CleanName(issued[i].name) # potentialPublicSuffix
        /\ \A n \in DOMAIN nodes : nodes[n].zoneName # potentialPublicSuffix

\* C12 amended: the TLD node's domains begin with [TLD, suffix]; the entries
\* after them are the candidates folded into the TLD node, in walk order.
C12_SuffixDomainsFirst ==
    (isSpecialTLD /\ Len(nodes) >= 2) =>
        /\ nodes[2].zoneName = tld
        /\ Len(nodes[2].domains) >= 2
        /\ SubSeq(nodes[2].domains, 1, 2) = <<tld, potentialPublicSuffix>>
        /\ \A i \in DOMAIN nodes[2].domains : i > 2 =>
              \E j \in DOMAIN domainsToCheck :
                 /\ nodes[2].domains[i] = domainsToCheck[j]
                 /\ i < Len(nodes[2].domains) =>
                       \E k \in DOMAIN domainsToCheck :
                          k > j /\ nodes[2].domains[i + 1] = domainsToCheck[k]
        /\ Len(domainsToCheck) > 0 => domainsToCheck[1] = BelowSuffix
        /\ \A i \in DOMAIN issued : i > 1 => CleanName(issued[i].name) # potentialPublicSuffix
        /\ \A n \in DOMAIN nodes : nodes[n].zoneName # potentialPublicSuffix

\* A returned tree under co.uk whose first candidate became a node below uk.
C12_Witness ==
    /\ result = "tree"
    /\ isSpecialTLD
    /\ Len(nodes) >= 3
    /\ nodes[2].domains = <<tld, potentialPublicSuffix>>
    /\ nodes[3].zoneName = BelowSuffix
    /\ issued[5] = Query(BelowSuffix, "SOA")

\* C13: when the second of two calls for the same domain, in the same process
\* and with every query settled as in the first, has ended, it has ended as
\* the first did and with a tree equal to the first's, node for node.
C13_SecondRunEqualsFirst ==
    (runs.n = 2 /\ walk.pc = "done") =>
        /\ result = runs.first[1].result
        /\ nodes = runs.first[1].nodes

\* Both calls returned a tree below a public suffix, with a folded candidate.
C13_Witness ==
    /\ runs.n = 2 /\ walk.pc = "done"
    /\ result = "tree"
    /\ nodes = runs.first[1].nodes
    /\ Len(nodes) >= 3
    /\ Len(nodes[2].domains) >= 2
    /\ publicSuffixMap.loaded

\* C14: findZoneApex never ends by throwing: once buildZoneHierarchy has
\* settled it can return, and when buildZoneHierarchy threw (the probe found
\* NXDOMAIN, or the probe or the root NS query failed) it returns the domain
\* exactly as it was passed.
C14_ApexNeverFailsOutward ==
    /\ apexCall.state \in {"pending", "returned"}
    /\ (apexCall.state = "pending" /\ walk.pc = "done") => ENABLED FindZoneApexReturns
    /\ (apexCall.state = "returned" /\ result # "tree") => apexCall.value = queriedDomain

\* buildZoneHierarchy threw for a domain written with a final dot, which comes back as passed.
C14_Witness ==
    /\ apexCall.state = "returned"
    /\ result \in {"Error", "DomainNotFound"}
    /\ apexCall.value = <<"example", "com", "">>

\* D is a zone apex: its SOA query answers an SOA owned by D.
IsZoneApex ==
    /\ NonEmptyAnswer(probeResp)
    /\ FindType(probeResp.Answer, 6) > 0
    /\ CleanName(probeResp.Answer[FindType(probeResp.Answer, 6)].name) = CleanName(queriedDomain)

\* The node that was the current parent when the last candidate was examined.
LastParent ==
    IF nodes[Len(nodes)].zoneName = CleanName(queriedDomain) THEN Len(nodes) - 1 ELSE Len(nodes)

\* The NS set the resolver holds for a name.
NsOf(name) ==
    IF CleanName(name) \in DOMAIN nsWorld THEN Nameservers(nsWorld[CleanName(name)]) ELSE <<>>

AllThrew(g) == \A i \in SlotsOf(g) : rec.slots[i].out.state \in ThrownStates
Dispatched == rec.pc \in {"awaiting", "returned"}

\* On states: once the lookup has dispatched, every type has its three
\* queryDns calls; a type's promise is rejected exactly when its three calls
\* all threw and is otherwise fulfilled with one of its own fulfilled
\* responses, whatever happened to the calls of the other types; the field of
\* a type whose three calls all threw is absent; and the lookup is never in a
\* failed state and can return as soon as every type has settled.
FailuresStayLocal ==
    /\ rec.pc \in {"called", "awaiting", "returned"}
    /\ Dispatched =>
        /\ Len(rec.slots) = QueriesPerType * Len(rec.types)
        /\ \A g \in 1..Len(rec.types) :
            /\ \A i \in SlotsOf(g) : rec.slots[i].type = rec.types[g]
            /\ rec.groups[g].state = "rejected" => AllThrew(g)
            /\ rec.groups[g].state = "fulfilled" =>
                 \E i \in SlotsOf(g) : /\ rec.slots[i].out.state = "fulfilled"
                                       /\ rec.groups[g].value = rec.slots[i].out
            /\ (rec.groups[g].state # "pending" /\ AllThrew(g)) => rec.groups[g].state = "rejected"
            /\ (rec.pc = "returned" /\ AllThrew(g)) => ~rec.records[g].present
    /\ (rec.pc = "awaiting" /\ \A g \in 1..Len(rec.types) : rec.groups[g].state # "pending")
          => ENABLED RecordsReturn
    /\ (rec.pc = "awaiting" /\ \E g \in 1..Len(rec.types) :
            rec.groups[g].state = "pending" /\ \A i \in SlotsOf(g) : rec.slots[i].out.state # "pending")
          => ENABLED GroupResumes

\* On steps: all the queries are dispatched in the step that dispatches
\* the first, before any has settled, and a step that settles one call leaves
\* every other call of the lookup as it was.
SettlesOneAtATime ==
    [][/\ (rec.pc = "called" /\ rec'.pc # "called") =>
             /\ Len(rec'.slots) = QueriesPerType * Len(rec.types)
             /\ \A i \in 1..Len(rec'.slots) : rec'.slots[i].out.state \in {"pending", "rateLimited"}
       /\ Dispatched =>
             \A i \in 1..Len(rec.slots) :
                rec'.slots[i] # rec.slots[i] =>
                   /\ rec.slots[i].out.state = "pending"
                   /\ \A j \in 1..Len(rec.slots) : j # i => rec'.slots[j] = rec.slots[j]]_vars

\* A returned lookup in which one call of a type timed out and a call
\* dispatched after it was fulfilled, whose field is present, while the
\* three calls of the other type all threw and its field is absent.
C16_Witness ==
    /\ rec.pc = "returned"
    /\ Len(rec.types) = 2
    /\ rec.slots[1].out.state = "timeout"
    /\ rec.slots[2].out.state = "rateLimited"
    /\ rec.slots[3].out = Fulfilled(TRUE, <<1>>)
    /\ rec.records[1].present
    /\ AllThrew(2)
    /\ ~rec.records[2].present

\* C16: the queries of every type are dispatched together before any is
\* awaited, each settles on its own, a type fails only when its three queries
\* all threw, its field is then absent, and the lookup itself never fails
\* (FailuresStayLocal in every state, SettlesOneAtATime in every step).
C16_QueriesIndependent == []FailuresStayLocal /\ SettlesOneAtATime

\* The successful responses of the first type that have records in Answer, and
\* the highest TTL among them.
WithAnswer == {i \in SlotsOf(1) : /\ rec.slots[i].out.state = "fulfilled"
                                  /\ rec.slots[i].out.hasAnswer
                                  /\ Len(rec.slots[i].out.ttls) > 0}
HighestTtl == CHOOSE m \in {MaxOf(rec.slots[i].out.ttls) : i \in WithAnswer} :
                 \A i \in WithAnswer : MaxOf(rec.slots[i].out.ttls) <= m
FirstSuccessful == CHOOSE i \in SlotsOf(1) :
                      /\ rec.slots[i].out.state = "fulfilled"
                      /\ \A j \in SlotsOf(1) : rec.slots[j].out.state = "fulfilled" => i <= j

\* C17 as stated: when some successful response has records in Answer, the
\* response kept has records in Answer and holds the highest TTL of all
\* (TTL 0 included), and the SOA record returned carries that TTL.
C17_KeepsHighestTtl ==
    (rec.pc \in {"awaiting", "returned"} /\ rec.groups[1].state = "fulfilled" /\ WithAnswer # {})
        => /\ rec.groups[1].value.hasAnswer
           /\ Len(rec.groups[1].value.ttls) > 0
           /\ MaxOf(rec.groups[1].value.ttls) = HighestTtl
           /\ rec.pc = "returned" => rec.records[1] = [present |-> TRUE, ttls |-> <<HighestTtl>>]

\* C17 where the code agrees: the same, when the highest TTL is above 0 or
\* the first successful response has records in Answer; in the remaining case
\* the first successful response is kept although it has no records.
C17_KeepsHighestPositiveTtl ==
    (rec.pc \in {"awaiting", "returned"} /\ rec.groups[1].state = "fulfilled" /\ WithAnswer # {})
        => IF HighestTtl > 0 \/ FirstSuccessful \in WithAnswer
           THEN /\ rec.groups[1].value.hasAnswer
                /\ Len(rec.groups[1].value.ttls) > 0
                /\ MaxOf(rec.groups[1].value.ttls) = HighestTtl
                /\ rec.pc = "returned" => rec.records[1] = [present |-> TRUE, ttls |-> <<HighestTtl>>]
           ELSE /\ rec.groups[1].value = rec.slots[FirstSuccessful].out
                /\ rec.pc = "returned" => ~rec.records[1].present

\* Three SOA responses with TTLs 1, 2 and 0: the record returned has TTL 2.
C17_Witness ==
    /\ rec.pc = "returned"
    /\ rec.types = <<"SOA">>
    /\ OutsOf(rec.slots, 1) = <<Fulfilled(TRUE, <<1>>), Fulfilled(TRUE, <<2>>), Fulfilled(TRUE, <<0>>)>>
    /\ rec.records[1] = [present |-> TRUE, ttls |-> <<2>>]

\* C18: once the lookup has dispatched, its SOA and NS queries name the zone
\* apex and its A, AAAA, CNAME, MX and TXT queries the original domain; with a
\* supplied apex that apex is used and no hierarchy query is ever issued;
\* without one the apex is what findZoneApex returned, and findZoneApex and
\* its hierarchy walk had ended when the record queries were dispatched.
C18_ApexAndDomainQueries ==
    /\ rec.given => (issued = <<>> /\ walk = UnusedWalk /\ apexCall = NoApexCall)
    /\ Dispatched =>
        /\ \A i \in 1..Len(rec.slots) :
            /\ rec.slots[i].type \in {"SOA", "NS"} => rec.slots[i].name = rec.zoneApex
            /\ rec.slots[i].type \in {"A", "AAAA", "CNAME", "MX", "TXT"}
                  => rec.slots[i].name = queriedDomain
        /\ rec.given => rec.zoneApex = rec.supplied
        /\ ~rec.given => /\ apexCall.state = "returned"
                         /\ rec.zoneApex = apexCall.value
                         /\ walk.pc = "done"
                         /\ net.state # "waiting"
    /\ (~rec.given /\ apexCall.state # "returned") => rec.slots = <<>>

\* Without a supplied apex, the walk found example.com to be the apex of
\* staging.example.com and the three SOA queries were sent for example.com.
C18_Witness ==
    /\ rec.pc = "returned"
    /\ ~rec.given
    /\ rec.types = <<"SOA">>
    /\ Len(issued) > 0
    /\ apexCall.value = <<"example", "com">>
    /\ \A i \in 1..QueriesPerType : rec.slots[i].name = <<"example", "com">>
    /\ queriedDomain = <<"staging", "example", "com">>

\* How often a call did one thing, and the oldest timestamp of a window.
StepCount(t, what) == Cardinality({i \in DOMAIN tasks[t].steps : tasks[t].steps[i] = what})
Oldest(qs) == CHOOSE m \in Range(qs) : \A x \in Range(qs) : m <= x

\* C19: a queryDns call that was admitted has sent exactly one HTTP request and
\* recorded exactly one timestamp, whatever its outcome (response, timeout,
\* network, status or body error); a rejected call has sent none and recorded
\* none; and there are as many requests sent and timestamps recorded as calls
\* admitted, equal calls included.
C19_OneRequestPerAdmittedCall ==
    /\ \A t \in Tasks :
        /\ tasks[t].outcome = "RateLimited"
              => StepCount(t, "http") = 0 /\ StepCount(t, "record") = 0
        /\ (tasks[t].pc # "idle" /\ tasks[t].outcome # "RateLimited")
              => StepCount(t, "http") = 1 /\ StepCount(t, "record") = 1
    /\ Len(admitLog) = Cardinality({t \in Tasks : Sent(t)})

\* Two calls made at the same instant were both sent; one timed out and was
\* not sent again, the other was answered.
C19_Witness ==
    /\ tasks[1].outcome = "Timeout"
    /\ tasks[2].outcome = "response"
    /\ StepCount(1, "http") = 1
    /\ admitLog = <<0, 0>>

----------------------------------------------------------------------------
(* C21: the not-found error and the cache                                  *)

\* The call returns in this step with 'RDAP server not found for this TLD'.
ReturnsNotFound(c) ==
    /\ rdap[c].pc # "done"
    /\ rdap'[c].pc = "done"
    /\ rdap'[c].outcome = "RdapServerNotFound"

\* The cache holds a negative result for the TLD: an entry without a server.
NegativeEntry(cache, key) == key \in DOMAIN cache /\ FirstServer(cache[key]) = "null"

\* C21 as stated: whenever queryRdap returns the not-found error it does not
\* throw and the cache holds no entry without a server for that TLD
\* afterwards, so that the next lookup fetches the bootstrap registry again.
C21_NotFoundLeavesNoEntry ==
    [][\A c \in RdapCalls : ReturnsNotFound(c)
          => /\ rdap'[c].result.error = Some("RdapServerNotFound")
             /\ ~NegativeEntry(rdapServerCache', rdap'[c].tld)]_vars

\* C21 as the code has it: the not-found error is returned, never thrown, and
\* the call stores an entry exactly when the bootstrap registry lists the TLD
\* with no server; a call that finds such an entry returns the error without
\* any request.
C21_NotFoundStoresEmptyList ==
    [][\A c \in RdapCalls : ReturnsNotFound(c)
          => /\ rdap'[c].result.error = Some("RdapServerNotFound")
             /\ (rdapServerCache' # rdapServerCache)
                   <=> /\ rdap[c].pc = "json"
                       /\ rdap[c].body.services.present
                       /\ FindService(rdap[c].body.services.v, rdap[c].tld) > 0
                       /\ rdap[c].tld \notin DOMAIN rdapServerCache
             /\ rdapServerCache' # rdapServerCache
                   => NegativeEntry(rdapServerCache', rdap'[c].tld)
             /\ rdap[c].pc = "idle"
                   => rdap'[c].steps = <<>> /\ NegativeEntry(rdapServerCache, rdap'[c].tld)]_vars

\* The first lookup for "emp" found the TLD listed without a server and
\* returned not-found; the second returned not-found from the cache without
\* fetching the bootstrap registry.
C21_Witness ==
    /\ rdap[1].outcome = "RdapServerNotFound"
    /\ rdap[1].steps = <<"http">>
    /\ rdap[1].tld = "emp"
    /\ rdap[2].outcome = "RdapServerNotFound"
    /\ rdap[2].hit
    /\ rdap[2].steps = <<>>
    /\ rdapServerCache["emp"] = <<>>

----------------------------------------------------------------------------
(* C22: the life of a cache entry                                          *)

\* The call starts in this step.
Starts(c) == rdap[c].pc = "idle" /\ rdap'[c].pc # "idle"

\* A call that found its TLD in the cache never fetches the bootstrap registry.
HitsSkipBootstrap ==
    \A c \in RdapCalls : rdap[c].hit
        => rdap[c].call # "rdapBootstrap" /\ Len(rdap[c].steps) <= 1

\* A call starting when the cache holds its TLD uses the cached first server.
StartsFromCache(c) ==
    (Starts(c) /\ rdap'[c].tld \in DOMAIN rdapServerCache)
        => /\ rdap'[c].hit
           /\ rdap'[c].server = FirstServer(rdapServerCache[rdap'[c].tld])
           /\ rdap'[c].call # "rdapBootstrap"
           /\ UNCHANGED rdapServerCache

\* C22 as stated: an entry of the cache is never removed or replaced by any
\* later or concurrently running queryRdap, and every later queryRdap for the
\* TLD uses the cached first server without fetching the bootstrap registry.
C22_EntryNeverReplaced ==
    /\ []HitsSkipBootstrap
    /\ [][/\ \A key \in DOMAIN rdapServerCache :
                /\ key \in DOMAIN rdapServerCache'
                /\ rdapServerCache'[key] = rdapServerCache[key]
          /\ \A c \in RdapCalls : StartsFromCache(c)]_vars

\* C22 amended: an entry is never removed, and it is replaced only by a
\* queryRdap for the same TLD that missed the cache before the entry was
\* stored and whose own bootstrap response lists the TLD; every queryRdap
\* starting after the entry was stored uses the first server of the entry it
\* finds without fetching the bootstrap registry.
C22_EntryReplacedOnlyByEarlierMiss ==
    /\ []HitsSkipBootstrap
    /\ [][/\ \A key \in DOMAIN rdapServerCache :
                /\ key \in DOMAIN rdapServerCache'
                /\ rdapServerCache'[key] # rdapServerCache[key]
                      => \E c \in RdapCalls :
                            /\ rdap[c].pc = "json" /\ rdap'[c].pc # "json"
                            /\ rdap[c].call = "rdapBootstrap"
                            /\ rdap[c].tld = key
                            /\ ~rdap[c].hit
                            /\ FindService(rdap[c].body.services.v, key) > 0
                            /\ rdapServerCache'[key] =
                                  rdap[c].body.services.v[FindService(rdap[c].body.services.v, key)].servers
          /\ \A c \in RdapCalls : StartsFromCache(c)]_vars

\* Two lookups for "com" both missed the cache; the first stored the list
\* of its bootstrap response and queried s1, the second replaced the entry with
\* the list of a changed registry; a third lookup then used the entry it found.
C22_Witness ==
    /\ rdap[1].tld = "com" /\ ~rdap[1].hit /\ rdap[1].server = "s1"
    /\ rdap[2].tld = "com" /\ ~rdap[2].hit /\ rdap[2].server = "s2"
    /\ rdapServerCache["com"] = <<"s2">>
    /\ rdap[3].tld = "com" /\ rdap[3].hit /\ rdap[3].server = "s2"
    /\ rdap[3].steps = <<"http">>

----------------------------------------------------------------------------
(* C23: queryRdap never throws                                             *)

\* The failures a queryRdap call can meet: a bootstrap or domain fetch that
\* timed out or failed, no server for the TLD, a non-success status of the
\* domain query, a body that cannot be decoded or read.
RdapCauses == {"timeout", "network", "noServer", "status", "body"}

\* C23: no queryRdap call ever throws; a call that met one of the failures
\* has returned, and its result has the error field set and nothing else;
\* a call that met none returns a result without error.
C23_NeverFailsOutward ==
    \A c \in RdapCalls :
        /\ rdap[c].pc \in {"idle", "fetch", "json", "done"}
        /\ rdap[c].cause \in RdapCauses \cup {"none"}
        /\ rdap[c].cause # "none"
              => /\ rdap[c].pc = "done"
                 /\ rdap[c].result.error.present
                 /\ rdap[c].result = RdapError(rdap[c].result.error.v)
        /\ (rdap[c].pc = "done" /\ rdap[c].cause = "none")
              => ~rdap[c].result.error.present

\* Three calls returned: one after its bootstrap fetch timed out, one after
\* a non-success status of the domain query, one after an undecodable body of
\* the domain response.
C23_Witness ==
    /\ rdap[1].pc = "done" /\ rdap[1].cause = "timeout" /\ rdap[1].call = "rdapBootstrap"
    /\ rdap[2].pc = "done" /\ rdap[2].cause = "status"
    /\ rdap[3].pc = "done" /\ rdap[3].cause = "body" /\ rdap[3].call = "rdapDomain"
    /\ rdap[3].body = Garbage
    /\ \A c \in RdapCalls : rdap[c].result.error.present

----------------------------------------------------------------------------
(* C24: fields missing from the RDAP domain response                       *)

\* The call parsed a domain object.
Parsed(c) == rdap[c].pc = "done" /\ rdap[c].outcome = "rdapInfo"

\* The decoded object has an entity with the registrar role.
HasRegistrar(data) ==
    data.entities.present /\ \E i \in DOMAIN data.entities.v : "registrar" \in data.entities.v[i].roles

\* The decoded object has an event with the action.
HasEvent(data, action) ==
    data.events.present /\ \E i \in DOMAIN data.events.v : data.events.v[i].eventAction = action

\* C24 as stated: when the domain response lacks a registrar entity, a
\* registration or expiration event, the status list or the nameserver list,
\* the corresponding field of the result is undefined; the other fields are
\* still returned.
C24_MissingFieldUndefined ==
    \A c \in RdapCalls : Parsed(c) =>
        LET data == rdap[c].body
            r == rdap[c].result
        IN /\ ~r.error.present
           /\ ~HasRegistrar(data) => ~r.registrar.present
           /\ ~HasEvent(data, "registration") => ~r.registrationDate.present
           /\ ~HasEvent(data, "expiration") => ~r.expirationDate.present
           /\ ~data.status.present => ~r.status.present
           /\ ~data.nameservers.present => ~r.nameservers.present
           /\ data.status.present => r.status = data.status
           /\ data.nameservers.present => r.nameservers = data.nameservers

\* C24 amended: a missing registrar entity (or a first registrar entity
\* without a name) gives registrar 'Unknown', a missing status or nameserver
\* list gives an empty list, a missing ldhName gives the domain queried; only
\* registrationDate and expirationDate are undefined when their event is
\* missing. Every field that is there is returned whatever else is missing.
C24_MissingFieldDefaults ==
    \A c \in RdapCalls : Parsed(c) =>
        LET data == rdap[c].body
            r == rdap[c].result
        IN /\ ~r.error.present
           /\ ~HasRegistrar(data) => r.registrar = Some("Unknown")
           /\ r.registrar.present
           /\ (data.entities.present /\ Len(data.entities.v) > 0
                 /\ "registrar" \in data.entities.v[Len(data.entities.v)].roles
                 /\ "registrar" \notin data.entities.v[1].roles)
                 => r.registrar = data.entities.v[Len(data.entities.v)].fn
           /\ ~HasEvent(data, "registration") => ~r.registrationDate.present
           /\ ~HasEvent(data, "expiration") => ~r.expirationDate.present
           /\ (HasEvent(data, "registration") /\ data.events.v[1].eventDate.present)
                 => r.registrationDate = Some("d1")
           /\ HasEvent(data, "expiration") => r.expirationDate = Some("d2")
           /\ r.status = IF data.status.present THEN data.status ELSE Some(<<>>)
           /\ r.nameservers = IF data.nameservers.present THEN data.nameservers ELSE Some(<<>>)
           /\ r.domain = IF data.ldhName.present THEN data.ldhName ELSE Some(rdap[c].domain)

\* A response with nothing but the object itself was parsed: the registrar
\* is 'Unknown', both lists are empty, both dates undefined.
C24_Witness ==
    /\ Parsed(1)
    /\ rdap[1].body = BareBody
    /\ rdap[1].result.registrar = Some("Unknown")
    /\ rdap[1].result.status = Some(<<>>)
    /\ rdap[1].result.nameservers = Some(<<>>)
    /\ ~rdap[1].result.registrationDate.present
    /\ ~rdap[1].result.expirationDate.present
    /\ rdap[1].result.domain = Some(ParseDomain)

----------------------------------------------------------------------------
(* C25: node or folded name, for a candidate whose zone info resolved      *)

\* The step pushes a node named after d under the current parent, carrying
\* the flag, and makes it the current parent one level deeper.
BecomesCurrentParent(d, flag) ==
    /\ BecomesNode(d, flag)
    /\ walk'.currentParent = Len(nodes')
    /\ walk'.currentDepth = walk.currentDepth + 1
    /\ nodes'[walk.currentParent].domains = nodes[walk.currentParent].domains

\* The step adds no node, appends d to the current parent's domains and
\* leaves the current parent and the depth as they were.
FoldedIntoParent(d) ==
    /\ Len(nodes') = Len(nodes)
    /\ nodes'[walk.currentParent].domains = Append(nodes[walk.currentParent].domains, d)
    /\ walk'.currentParent = walk.currentParent
    /\ walk'.currentDepth = walk.currentDepth

\* The two NS sets are both non-empty and share no nameserver.
Apart(domainNS, parentNS) ==
    domainNS # <<>> /\ parentNS # <<>> /\ NsDisjoint(domainNS, parentNS)

\* What C25 and its amendment share: once the candidate's zone info and both
\* NS sets of the delegation test resolved, the candidate is delegated iff the
\* sets are apart; a first or delegated candidate becomes the new current
\* parent (after its CNAME lookup, when it is the queried domain) with the
\* flag idx > 0 and delegated; any other candidate is folded.
DelegationDecides ==
    LET d == domainsToCheck[walk.idx]
        apart == Apart(Nameservers(net.resp), walk.parentNS)
    IN (walk.pc = "domainNS" /\ net.state = "resp") =>
          /\ walk'.isDelegated = apart
          /\ (walk.idx = 1 \/ apart) =>
                IF d = queriedDomain
                THEN walk'.pc = "nodeCNAME" /\ nodes' = nodes
                ELSE BecomesCurrentParent(d, walk.idx > 1 /\ apart)
          /\ ~(walk.idx = 1 \/ apart) => FoldedIntoParent(d)

\* C25 as stated: a candidate whose zone info resolved (and whose NS sets
\* were obtained) is delegated iff the sets are both non-empty and share no
\* nameserver; it becomes a new child node of the current parent, which then
\* becomes the current parent, iff it is first or delegated, and is otherwise
\* appended to the current parent's domains; the node's isDelegated flag is
\* true iff it is delegated and not first.
C25_NodeIffFirstOrDelegated ==
    [][/\ DelegationDecides
       /\ (walk.pc = "nodeCNAME" /\ Settled)
             => BecomesCurrentParent(domainsToCheck[walk.idx],
                                     walk.idx > 1 /\ walk.isDelegated)]_vars

\* C25 amended: the same, except that a first or delegated candidate that is
\* the queried domain becomes a node only if its CNAME lookup resolves; when
\* that lookup fails the candidate is folded into the current parent's
\* domains although it is first or delegated. A candidate whose delegation
\* test fails on one of its NS queries is folded as well.
C25_NodeIffFirstOrDelegatedAndCnameResolved ==
    [][/\ DelegationDecides
       /\ (walk.pc = "nodeCNAME" /\ net.state = "resp")
             => BecomesCurrentParent(domainsToCheck[walk.idx],
                                     walk.idx > 1 /\ walk.isDelegated)
       /\ (walk.pc \in {"nodeCNAME", "parentNS", "domainNS"} /\ net.state = "throw")
             => FoldedIntoParent(domainsToCheck[walk.idx])]_vars

\* A returned tree for a three-label name: the first candidate is a node not
\* flagged although its NS set is apart from the TLD's, and the queried
\* domain, delegated from it, was folded into it because its CNAME lookup
\* failed.
C25_Witness ==
    /\ result = "tree"
    /\ Len(nodes) = 3
    /\ Len(domainsToCheck) = 2
    /\ ~nodes[3].isDelegated
    /\ Apart(nodes[3].nameservers, nodes[2].nameservers)
    /\ walk.isDelegated
    /\ walk.idx = 2
    /\ queriedDomain \in Range(nodes[3].domains)
    /\ cnameThrew

----------------------------------------------------------------------------
(* C26: a candidate without an SOA of its own                              *)

\* The response carries, in Answer or Authority, an SOA owned by the name.
HasOwnSoa(resp, name) ==
    \/ \E i \in DOMAIN resp.Answer :
          resp.Answer[i].type = 6 /\ CleanName(resp.Answer[i].name) = CleanName(name)
    \/ \E i \in DOMAIN resp.Authority :
          resp.Authority[i].type = 6 /\ CleanName(resp.Authority[i].name) = CleanName(name)

\* The response carries an SOA of another owner.
HasForeignSoa(resp, name) ==
    \/ \E i \in DOMAIN resp.Answer :
          resp.Answer[i].type = 6 /\ CleanName(resp.Answer[i].name) # CleanName(name)
    \/ \E i \in DOMAIN resp.Authority :
          resp.Authority[i].type = 6 /\ CleanName(resp.Authority[i].name) # CleanName(name)

\* The nodes named after the name.
NodesNamed(name) == {n \in DOMAIN nodes : nodes[n].zoneName = CleanName(name)}

\* C26 as stated, for the candidate that is the queried name (whose SOA
\* response is the one the probe received): when that response carries no SOA
\* owned by the candidate, the returned tree has no node named after it and
\* the name is in the domains of a node.
C26_NoOwnSoaNeverNode ==
    (/\ result = "tree"
     /\ Len(domainsToCheck) > 0
     /\ domainsToCheck[Len(domainsToCheck)] = queriedDomain
     /\ walk.idx = Len(domainsToCheck)
     /\ ~HasOwnSoa(probeResp, queriedDomain))
        => /\ NodesNamed(queriedDomain) = {}
           /\ \E n \in DOMAIN nodes : n > 1 /\ queriedDomain \in Range(nodes[n].domains)

\* What holds of the code: a candidate whose SOA response carries no SOA of
\* its own is folded at once when the status is 3, when the status is 2 and
\* both sections are absent, when the Answer section is non-empty, or when
\* the response carries an SOA of another owner; when the Answer section is
\* empty or absent and no SOA is in Authority the candidate goes on to its NS
\* lookup under its own name, as a zone.
C26_FoldedUnlessEmptyAnswerNoSoa ==
    [][LET d == domainsToCheck[walk.idx]
           refused == \/ net.resp.Status = 3
                      \/ net.resp.Status = 2 /\ ~net.resp.hasAnswer /\ ~net.resp.hasAuthority
                      \/ NonEmptyAnswer(net.resp)
                      \/ HasForeignSoa(net.resp, d)
       IN (walk.pc = "candSOA" /\ net.state = "resp" /\ ~HasOwnSoa(net.resp, d)) =>
             /\ refused => FoldedIntoParent(d)
             /\ ~refused => /\ walk'.pc = "candNS"
                            /\ walk'.checkZone = CleanName(d)
                            /\ net'.query = Query(CleanName(d), "NS")
                            /\ nodes' = nodes]_vars

\* A returned tree in which the queried name is a node of its own although
\* its SOA response had both sections absent.
C26_Witness ==
    /\ result = "tree"
    /\ probeResp = Resp(0, FALSE, <<>>, FALSE, <<>>)
    /\ Len(domainsToCheck) = 2
    /\ NodesNamed(queriedDomain) = {4}
    /\ nodes[4].domains = <<queriedDomain>>

----------------------------------------------------------------------------
(* C27: a candidate answered with status 3                                 *)

\* The SOA query for the i-th candidate was answered with status 3.
CandidateNxdomain(i) ==
    /\ Query(domainsToCheck[i], "SOA") \in DOMAIN runs.log
    /\ runs.log[Query(domainsToCheck[i], "SOA")].state = "resp"
    /\ runs.log[Query(domainsToCheck[i], "SOA")].resp.Status = 3

\* The name is in the tree built so far, as a zone name or in a node's domains.
InTree(name) ==
    \E n \in DOMAIN nodes : nodes[n].zoneName = name \/ name \in Range(nodes[n].domains)

\* C27 as stated: once the SOA query for a candidate was answered with
\* status 3, the walk is aborted: no SOA query is issued for a deeper
\* candidate and no deeper candidate is in the tree.
C27_NxdomainAbortsWalk ==
    \A i \in DOMAIN domainsToCheck : \A j \in DOMAIN domainsToCheck :
        (walk.pc # "start" /\ walk.idx >= i /\ CandidateNxdomain(i) /\ j > i)
            => /\ Query(domainsToCheck[j], "SOA") \notin Range(issued)
               /\ ~InTree(domainsToCheck[j])

\* What holds of the code: a candidate answered with status 3 is folded into
\* the current parent's domains like any other failed candidate, the current
\* parent and depth stay, and the SOA query for the next deeper candidate is
\* issued in the same step.
C27_NxdomainFoldsAndContinues ==
    [][(walk.pc = "candSOA" /\ net.state = "resp" /\ net.resp.Status = 3) =>
          /\ FoldedIntoParent(domainsToCheck[walk.idx])
          /\ result' = result
          /\ walk.idx < Len(domainsToCheck) =>
                /\ walk'.idx = walk.idx + 1
                /\ walk'.pc = "candSOA"
                /\ issued' = Append(issued, Query(domainsToCheck[walk.idx + 1], "SOA"))]_vars

\* A returned tree of the first call: the first candidate was answered with
\* status 3 and folded into the TLD node; the second candidate was queried
\* after it and became a node.
C27_Witness ==
    /\ result = "tree"
    /\ runs.n = 1
    /\ Len(domainsToCheck) = 2
    /\ CandidateNxdomain(1)
    /\ domainsToCheck[1] \in Range(nodes[2].domains)
    /\ Len(nodes) = 3
    /\ nodes[3].zoneName = domainsToCheck[2]
    /\ Query(domainsToCheck[2], "SOA") \in Range(issued)

----------------------------------------------------------------------------
(* C28: a candidate whose zone info cannot be resolved                     *)

\* getZoneInfo fails for the current candidate in this step: its SOA query
\* was rejected, timed out or failed, its SOA response raises an error
\* (status 3, server failure, not a zone), or its NS query failed.
ZoneInfoFails ==
    \/ walk.pc \in {"candSOA", "candNS"} /\ net.state = "throw"
    \/ /\ walk.pc = "candSOA" /\ net.state = "resp"
       /\ ZoneInfo(net.resp, domainsToCheck[walk.idx]).throws

\* The loop goes on in this step: the SOA query for the next deeper candidate
\* is issued, or, after the last candidate, the tree is returned.
LoopGoesOn ==
    IF walk.idx < Len(domainsToCheck)
    THEN /\ walk'.idx = walk.idx + 1
         /\ walk'.pc = "candSOA"
         /\ issued' = Append(issued, Query(domainsToCheck[walk.idx + 1], "SOA"))
         /\ result' = result
    ELSE walk'.pc = "done" /\ result' = "tree"

\* C28: a failure to resolve a candidate's zone info never ends the walk: in
\* the same step the candidate is appended to the current parent's domains,
\* the current parent and the depth stay, and the next deeper candidate is
\* taken up (after the CNAME lookup of the catch block, whatever its outcome,
\* when the candidate is the queried domain); after the last candidate the
\* tree is returned.
C28_FailedCandidateFoldedWalkGoesOn ==
    [][/\ ZoneInfoFails =>
             /\ FoldedIntoParent(domainsToCheck[walk.idx])
             /\ IF domainsToCheck[walk.idx] = queriedDomain
                THEN /\ walk'.pc = "catchCNAME" /\ walk'.idx = walk.idx
                     /\ result' = result
                ELSE LoopGoesOn
       /\ (walk.pc = "catchCNAME" /\ Settled) =>
             /\ LoopGoesOn
             /\ Len(nodes') = Len(nodes)
             /\ walk'.currentParent = walk.currentParent
             /\ walk'.currentDepth = walk.currentDepth]_vars

\* A returned tree: the SOA query of the first candidate failed and the
\* candidate was folded into the TLD node; the second candidate was examined
\* after it and became a node at the depth the first would have had.
C28_Witness ==
    /\ result = "tree"
    /\ "SOA" \in threw
    /\ Len(domainsToCheck) = 2
    /\ Len(nodes) = 3
    /\ domainsToCheck[1] \in Range(nodes[2].domains)
    /\ nodes[3].zoneName = domainsToCheck[2]
    /\ nodes[3].depth = 2
    /\ nodes[2].children = <<3>>

----------------------------------------------------------------------------
(* C29: the queried name in the returned tree                              *)

\* The node holds the name as its zoneName or in its domains, compared
\* without case and final dot.
NodeHolds(n, name) ==
    \/ CleanName(nodes[n].zoneName) = CleanName(name)
    \/ \E i \in DOMAIN nodes[n].domains : CleanName(nodes[n].domains[i]) = CleanName(name)

\* C29 as stated: whenever a tree is returned for a domain other than '.',
\* whatever failed after the existence probe, the queried name is the zoneName
\* of the deepest node or an entry of the deepest node's domains.
C29_QueriedNameInDeepestNode ==
    (result = "tree" /\ queriedDomain # ROOT) => NodeHolds(Deepest(nodes, 1), queriedDomain)

\* What holds of the code: the queried name is held by the deepest node of
\* every returned tree that has a TLD node; when the TLD's zone info could not
\* be resolved the tree returned is the root node alone, with domains ['.']
\* and no child, and the queried name is nowhere in it.
C29_QueriedNameInDeepestNodeBelowRoot ==
    (result = "tree" /\ queriedDomain # ROOT) =>
        IF Len(nodes) >= 2
        THEN NodeHolds(Deepest(nodes, 1), queriedDomain)
        ELSE /\ Len(nodes) = 1
             /\ nodes[1].domains = <<ROOT>>
             /\ nodes[1].children = <<>>
             /\ ~NodeHolds(1, queriedDomain)
             /\ issued[Len(issued)] \in {Query(tld, "SOA"), Query(CleanName(tld), "NS")}

\* A tree returned for a three-label name after the SOA query for its TLD
\* failed: the root node alone.
C29_Witness ==
    /\ result = "tree"
    /\ Len(parts) = 3
    /\ "SOA" \in threw
    /\ Len(nodes) = 1
    /\ nodes[1].zoneName = ROOT
    /\ issued[Len(issued)] = Query(tld, "SOA")

----------------------------------------------------------------------------
(* C30: every query after the root step fails                              *)

\* The call got past the root step, and every query it issued after the
\* probe and the root NS query timed out or failed otherwise.
AllFailedAfterRoot ==
    /\ Len(issued) >= 3
    /\ \A i \in 3..Len(issued) :
          /\ issued[i] \in DOMAIN runs.log
          /\ runs.log[issued[i]].state = "throw"

\* C30 as stated: a call that ended with every query after the root step
\* failed has failed to its caller.
C30_ExhaustionFails ==
    (walk.pc = "done" /\ AllFailedAfterRoot) => result = "Error"

\* What holds of the code: once the root node is built the call never fails;
\* when every query after the root step failed, that is the TLD's SOA query
\* alone, and the call returns the root node by itself as the tree.
C30_ExhaustionReturnsRoot ==
    /\ Len(issued) >= 3 => result \in {"pending", "tree"}
    /\ (walk.pc = "done" /\ AllFailedAfterRoot) =>
          /\ result = "tree"
          /\ issued = <<Query(queriedDomain, "SOA"), Query(ROOT, "NS"), Query(tld, "SOA")>>
          /\ Len(nodes) = 1
          /\ nodes[1].zoneName = ROOT
          /\ nodes[1].children = <<>>

\* The first call for a three-label name has returned the root node alone
\* after the one query that followed the root step failed.
C30_Witness ==
    /\ walk.pc = "done"
    /\ runs.n = 1
    /\ AllFailedAfterRoot
    /\ Len(parts) = 3
    /\ result = "tree"
    /\ Len(nodes) = 1

----------------------------------------------------------------------------
(* C31: a queried name with a CNAME answer                                 *)

\* C31 as stated: in a returned tree for a queried name below the TLD for
\* which the resolver holds a CNAME answer, no node named after the queried
\* name has isDelegated = true.
C31_CnameNeverDelegatedNode ==
    (/\ result = "tree"
     /\ Len(domainsToCheck) > 0
     /\ CnameInfo(cnameWorld).isCname)
        => \A n \in NodesNamed(queriedDomain) : ~nodes[n].isDelegated

\* What holds of the code: the CNAME answer of the queried name only fills
\* isCname and cnameTarget of the new node; the node is created all the same
\* and its isDelegated flag is idx > 0 and delegated, whatever the answer.
C31_CnameOnlyMarksNode ==
    [][(walk.pc = "nodeCNAME" /\ net.state = "resp") =>
          /\ BecomesNode(domainsToCheck[walk.idx], walk.idx > 1 /\ walk.isDelegated)
          /\ nodes'[Len(nodes')].isCname = CnameInfo(net.resp).isCname
          /\ nodes'[Len(nodes')].cnameTarget = CnameInfo(net.resp).target
          /\ nodes'[Len(nodes')].nameservers = walk.checkNS]_vars

\* A returned tree in which the queried name, second candidate of the walk,
\* is a node with both isCname and isDelegated true.
C31_Witness ==
    /\ result = "tree"
    /\ Len(domainsToCheck) = 2
    /\ CnameInfo(cnameWorld).isCname
    /\ NodesNamed(queriedDomain) = {4}
    /\ nodes[4].isCname
    /\ nodes[4].isDelegated
    /\ Apart(nodes[4].nameservers, nodes[3].nameservers)

----------------------------------------------------------------------------
(* C32: findZoneApex and the root                                          *)

\* C32 as stated: for a domain other than '.', findZoneApex never returns
\* '.': it returns the zoneName of the deepest node below the root, or the
\* domain itself when the tree has no node below the root or no tree was
\* built.
C32_ApexNeverRoot ==
    (apexCall.state = "returned" /\ queriedDomain # ROOT) =>
        /\ apexCall.value # ROOT
        /\ apexCall.value = IF result = "tree" /\ Len(nodes) >= 2
                            THEN nodes[Len(nodes)].zoneName
                            ELSE queriedDomain

\* What holds of the code: findZoneApex returns the domain itself only when
\* buildZoneHierarchy threw; whenever a tree came back it returns the zoneName
\* of the last node of the chain, which is '.' when the TLD's zone info could
\* not be resolved and the tree is the root alone.
C32_ApexIsRootWhenTldFails ==
    (apexCall.state = "returned" /\ queriedDomain # ROOT) =>
        /\ result # "tree" => apexCall.value = queriedDomain
        /\ result = "tree" => apexCall.value = nodes[Len(nodes)].zoneName
        /\ apexCall.value = ROOT
              <=> /\ result = "tree"
                  /\ Len(nodes) = 1
                  /\ issued[Len(issued)] \in {Query(tld, "SOA"), Query(CleanName(tld), "NS")}

\* findZoneApex has returned '.' for a three-label name whose TLD lookup failed.
C32_Witness ==
    /\ apexCall.state = "returned"
    /\ Len(parts) = 3
    /\ apexCall.value = ROOT
    /\ result = "tree"
    /\ nodes[1].children = <<>>

----------------------------------------------------------------------------
(* C33: the order of the queries of a walk                                 *)

\* The name made of the last n labels of the queried domain.
Suffix(n) == SubSeq(parts, (Len(parts) - n) + 1, Len(parts))

\* The number of labels of the first candidate.
FirstCandidateLen == IF isSpecialTLD THEN 3 ELSE 2

\* The positions in `issued` of the candidates' SOA queries, the position of
\* the SOA query that opens the candidate the p-th query belongs to, and the
\* number of that candidate.
SoaPos == {p \in 5..Len(issued) : issued[p].type = "SOA"}
OpenedAt(p) == IF \E s \in SoaPos : s <= p
               THEN CHOOSE s \in SoaPos : s <= p /\ \A r \in SoaPos : r <= p => r <= s
               ELSE 0
CandidateOf(p) == Cardinality({s \in SoaPos : s <= p})

\* The p-th query, p > 4, is in its place: the k-th candidate SOA query is for
\* the k-th shortest candidate; an NS query is one of the at most three that
\* follow the candidate's SOA query directly (the candidate's zone, the
\* current parent's zone, the candidate); a CNAME query is for the queried
\* domain, when the candidate is that domain, and at most two are made.
InPlace(p) ==
    LET k == CandidateOf(p)
        first == OpenedAt(p)
        d == Suffix((FirstCandidateLen + k) - 1)
        q == issued[p]
    IN /\ k >= 1
       /\ (FirstCandidateLen + k) - 1 <= Len(parts)
       /\ q.type = "SOA" => q.name = d
       /\ q.type = "NS" =>
             /\ p - first <= 3
             /\ \A r \in (first + 1)..p : issued[r].type = "NS"
             /\ p - first = 1 => q.name = CleanName(d)
             /\ p - first = 2 => \E n \in DOMAIN nodes : n > 1 /\ q.name = nodes[n].zoneName
             /\ p - first = 3 => q.name = d
       /\ q.type = "CNAME" =>
             /\ d = queriedDomain
             /\ q.name = queriedDomain
             /\ Cardinality({r \in first..p : issued[r].type = "CNAME"}) <= 2
       /\ q.type \in {"SOA", "NS", "CNAME"}

\* The queries issued so far are in the fixed order, the one outstanding
\* query is the last one issued, and every candidate shallower than the one
\* being examined is in the tree.
FixedOrder ==
    /\ Len(issued) >= 1 => issued[1] = Query(queriedDomain, "SOA")
    /\ Len(issued) >= 2 => issued[2] = Query(ROOT, "NS")
    /\ Len(issued) >= 3 => issued[3] = Query(tld, "SOA")
    /\ Len(issued) >= 4 => issued[4] = Query(CleanName(tld), "NS")
    /\ \A p \in 5..Len(issued) : InPlace(p)
    /\ net.state = "waiting" => net.query = issued[Len(issued)]
    /\ \A p \in SoaPos : \A j \in 1..(CandidateOf(p) - 1) :
          \E n \in DOMAIN nodes :
             \/ nodes[n].zoneName = CleanName(Suffix((FirstCandidateLen + j) - 1))
             \/ Suffix((FirstCandidateLen + j) - 1) \in Range(nodes[n].domains)

\* A step issues at most one query, and only when no query is outstanding.
OneOutstanding ==
    [][issued' # issued =>
          /\ net.state # "waiting"
          /\ net'.state = "waiting"
          /\ issued' = Append(issued, net'.query)]_vars

\* C33: a buildZoneHierarchy call has at most one query outstanding at any
\* time and issues its queries in a fixed order: the probe, the root NS query,
\* the TLD's SOA then NS query, then the candidates from shortest to longest,
\* each with its SOA query before its NS queries before any CNAME query, a
\* deeper candidate only after the shallower one is in the tree.
C33_QueriesInFixedOrder == []FixedOrder /\ OneOutstanding

\* A returned tree for a name two labels below the TLD: thirteen queries,
\* the first candidate's four before the second's, which end with the CNAME query.
C33_Witness ==
    /\ result = "tree"
    /\ Len(domainsToCheck) = 2
    /\ Len(issued) = 13
    /\ issued[5] = Query(domainsToCheck[1], "SOA")
    /\ issued[9] = Query(domainsToCheck[2], "SOA")
    /\ issued[13] = Query(queriedDomain, "CNAME")
    /\ Len(nodes) = 4

----------------------------------------------------------------------------
(* C34: a query and its timeout timer                                      *)

\* The query was sent early enough for its timer to fire within the time modelled.
Timely(t) == tasks[t].pc = "fetch" /\ tasks[t].start + DNS_TIMEOUT <= MaxTime

\* The outcomes of an admitted query.
SentOutcomes == {"response", "Timeout", "TransportError", "NetworkError", "BodyError"}

\* C34 as stated: every admitted query eventually completes with one outcome;
\* it is never left pending once the time of its timer has passed, whether it
\* is waiting for the response or reading the body.
C34_EveryQueryCompletes ==
    \A t \in Tasks : Timely(t) ~> tasks[t].pc = "done"

\* The timer exists only while fetch() is pending: it is cleared when the
\* response arrives, and a query that is reading its body or has completed
\* has none.
TimerOnlyWhileFetching ==
    \A t \in Tasks :
        /\ tasks[t].pc \in {"json", "done"} => tasks[t].start = 0
        /\ (tasks[t].pc = "done" /\ Sent(t)) => tasks[t].outcome \in SentOutcomes
        /\ tasks[t].pc \in {"fetch", "json"} => tasks[t].outcome = "none"

\* A query ends with Timeout only in a step from the fetch stage, when its
\* timer is due; an outcome, once there, never changes.
TimeoutOnlyWhileFetching ==
    [][\A t \in Tasks :
          /\ (tasks'[t].outcome = "Timeout" /\ tasks[t].outcome # "Timeout")
                => tasks[t].pc = "fetch" /\ now - tasks[t].start >= DNS_TIMEOUT
          /\ tasks[t].pc = "done" => tasks'[t] = tasks[t]]_vars

\* What holds of the code: a query waiting for its response leaves that stage
\* (the response arrives, the fetch fails, or the timer fires and it ends with
\* Timeout); the timer is cleared once the response has arrived, so it never
\* fires for a completed query, and neither for one that is reading its body,
\* which may stay pending for ever.
C34_FetchStageEnds ==
    /\ \A t \in Tasks : Timely(t) ~> tasks[t].pc \in {"json", "done"}
    /\ []TimerOnlyWhileFetching
    /\ TimeoutOnlyWhileFetching

\* A query admitted at time 0 is still reading its body when the clock has
\* passed its timeout, with no timer left to end it.
C34_Witness ==
    /\ tasks[1].pc = "json"
    /\ admitLog # <<>>
    /\ admitLog[1] = 0
    /\ tasks[1].lag = 0
    /\ now > DNS_TIMEOUT
    /\ tasks[1].start = 0
    /\ tasks[1].outcome = "none"

----------------------------------------------------------------------------
(* C35: the domains list of a node                                         *)

\* The names of a list are pairwise different.
NoNameTwice(ds) == \A i, j \in DOMAIN ds : i # j => ds[i] # ds[j]

\* Every name of the list has more labels than the one before it: the
\* candidates are walked from the shortest suffix to the longest.
ShortestFirst(ds) == \A i, j \in DOMAIN ds : i < j => Len(ds[i]) < Len(ds[j])

\* The names after the first (and, under a multi-label public suffix, after
\* the suffix of the TLD node) are candidates of the walk.
FoldedAreCandidates(ds) ==
    \A i \in DOMAIN ds :
        i > 1 => ds[i] \in Range(domainsToCheck) \cup {potentialPublicSuffix}

\* C35: in the tree built, every node's domains list starts with the node's
\* zoneName, holds no name twice, and lists the folded names after it in the
\* order of the walk, shortest first.
C35_DomainsOrderedNoDuplicate ==
    \A n \in DOMAIN nodes :
        /\ nodes[n].domains # <<>>
        /\ nodes[n].domains[1] = nodes[n].zoneName
        /\ NoNameTwice(nodes[n].domains)
        /\ ShortestFirst(nodes[n].domains)
        /\ FoldedAreCandidates(nodes[n].domains)

\* A tree is returned in which one node holds two folded names after its own.
C35_Witness ==
    /\ result = "tree"
    /\ \E n \in DOMAIN nodes :
        /\ Len(nodes[n].domains) >= 3
        /\ nodes[n].domains[2] \in Range(domainsToCheck)
        /\ nodes[n].domains[3] = queriedDomain

----------------------------------------------------------------------------
(* C36: the nameservers list of a node                                     *)

\* The list is in the order of Array.prototype.sort().
IsSorted(ns) == \A i, j \in DOMAIN ns : i < j => Rank(ns[i]) <= Rank(ns[j])

\* No name of the list changes when lowercased.
IsLowercased(ns) == \A i \in DOMAIN ns : ToLowerCase(ns[i]) = ns[i]

\* How many times x occurs in the list.
Occurrences(x, ns) == Cardinality({i \in DOMAIN ns : ns[i] = x})

\* The NS answer the resolver gives for the zone of node n.
NsAnswerOf(n) == nsWorld[CleanName(nodes[n].zoneName)]

\* The list holds the lowercased data of the Answer records, each as often as
\* the resolver returned it.
SameNames(ns, resp) ==
    LET raw == NameserversAsReturned(resp) IN
    /\ Len(ns) = Len(raw)
    /\ \A i \in DOMAIN raw : Occurrences(ToLowerCase(raw[i]), ns) =
          Cardinality({j \in DOMAIN raw : ToLowerCase(raw[j]) = ToLowerCase(raw[i])})

\* C36: every node's nameservers list is lowercased and sorted, whatever the
\* order and the case of the records the resolver returned, and holds the names
\* the resolver returned.
C36_NameserversLowercasedSorted ==
    \A n \in DOMAIN nodes :
        /\ IsSorted(nodes[n].nameservers)
        /\ IsLowercased(nodes[n].nameservers)
        /\ SameNames(nodes[n].nameservers, NsAnswerOf(n))

\* A tree is returned with a node whose resolver answered NS2 before ns1 and
\* whose list reads ns1, ns2.
C36_Witness ==
    /\ result = "tree"
    /\ \E n \in DOMAIN nodes :
        /\ Len(NsAnswerOf(n).Answer) = 2
        /\ NsAnswerOf(n).Answer[1].data = <<"NS2", "">>
        /\ NsAnswerOf(n).Answer[2].data = <<"ns1", "">>
        /\ nodes[n].nameservers = << <<"ns1", "">>, <<"ns2", "">> >>

----------------------------------------------------------------------------
(* C37: the records of an NS answer that count as nameservers              *)

\* Only the records of type NS (2) of the Answer section, lowercased, sorted.
NameserversOfTypeNs(resp) ==
    IF NonEmptyAnswer(resp)
    THEN LET ns == SelectSeq(resp.Answer, LAMBDA r : r.type = 2) IN
         Sort([i \in DOMAIN ns |-> ToLowerCase(ns[i].data)])
    ELSE <<>>

\* The node whose children hold n.
ParentOf(n) == CHOOSE p \in DOMAIN nodes : n \in Range(nodes[p].children)

\* The node was made for a candidate of the walk (the TLD node is flagged as
\* delegated without a comparison).
BelowTld(n) == nodes[n].depth >= 2

\* C37 as stated: a node's nameservers are the NS records of the Answer section
\* and nothing else, and a node flagged as delegated has NS records of its own:
\* a CNAME record in the Answer section is no nameserver and makes no name
\* count as delegated.
C37_OnlyNsRecordsCount ==
    \A n \in DOMAIN nodes :
        /\ nodes[n].nameservers = NameserversOfTypeNs(NsAnswerOf(n))
        /\ BelowTld(n) /\ nodes[n].isDelegated => NameserversOfTypeNs(NsAnswerOf(n)) # <<>>

\* What holds of the code: the data of every record of the Answer section,
\* whatever its type, is in the node's nameservers, and a node is flagged as
\* delegated on these lists: the node's and its parent's are non-empty and
\* share no name.
C37_EveryAnswerRecordCounts ==
    \A n \in DOMAIN nodes :
        /\ \A i \in DOMAIN NsAnswerOf(n).Answer :
               ToLowerCase(NsAnswerOf(n).Answer[i].data) \in Range(nodes[n].nameservers)
        /\ BelowTld(n) /\ nodes[n].isDelegated =>
               /\ nodes[n].nameservers # <<>>
               /\ nodes[ParentOf(n)].nameservers # <<>>
               /\ Range(nodes[n].nameservers) \cap Range(nodes[ParentOf(n)].nameservers) = {}

\* A tree is returned in which the queried name, whose NS answer held nothing
\* but a CNAME record, is a delegated node with the alias target as nameserver.
C37_Witness ==
    /\ result = "tree"
    /\ \E n \in DOMAIN nodes :
        /\ nodes[n].zoneName = queriedDomain
        /\ nodes[n].isDelegated
        /\ Len(NsAnswerOf(n).Answer) = 1
        /\ NsAnswerOf(n).Answer[1].type = 5
        /\ nodes[n].nameservers = <<ToLowerCase(CnameTargetData)>>

----------------------------------------------------------------------------
(* C38: the tree is one chain                                              *)

\* Node c is a child of node p.
ChildOf(c, p) == c \in Range(nodes[p].children)

\* The nodes without a child.
Leaves == {n \in DOMAIN nodes : nodes[n].children = <<>>}

\* C38: every node has at most one child and every node but the root is the
\* child of exactly one node, so the tree is a single chain from the root to
\* one deepest node; when findZoneApex has a tree, it returns the zoneName of
\* that node.
C38_SingleChainToApex ==
    /\ \A n \in DOMAIN nodes : Len(nodes[n].children) <= 1
    /\ \A n \in DOMAIN nodes :
          Cardinality({p \in DOMAIN nodes : ChildOf(n, p)}) = IF n = 1 THEN 0 ELSE 1
    /\ \A n, p \in DOMAIN nodes : ChildOf(n, p) => nodes[n].depth = nodes[p].depth + 1
    /\ nodes # <<>> => Cardinality(Leaves) = 1
    /\ (apexCall.state = "returned" /\ result = "tree") =>
          \E n \in Leaves : apexCall.value = nodes[n].zoneName

\* findZoneApex has returned the deepest node of a chain of four: the root,
\* the TLD, and two zones below it.
C38_Witness ==
    /\ apexCall.state = "returned"
    /\ result = "tree"
    /\ Len(nodes) = 4
    /\ nodes[4].children = <<>>
    /\ apexCall.value = nodes[4].zoneName
    /\ nodes[4].depth = 3

----------------------------------------------------------------------------
(* C39: the CNAME mark                                                     *)

\* The nodes marked as a CNAME.
CnameNodes == {n \in DOMAIN nodes : nodes[n].isCname}

\* C39: at most one node is marked isCname; it is the deepest node of the
\* chain and never the root; a node has a cnameTarget exactly when it is marked.
C39_CnameMarkOnDeepestOnly ==
    /\ Cardinality(CnameNodes) <= 1
    /\ \A n \in CnameNodes : nodes[n].children = <<>> /\ n # 1 /\ nodes[n].zoneName # ROOT
    /\ \A n \in DOMAIN nodes : nodes[n].isCname <=> nodes[n].cnameTarget # NoTarget

\* A tree is returned whose deepest node, a zone below the TLD node into which
\* the queried name was folded, carries the mark and the lowercased target.
C39_Witness ==
    /\ result = "tree"
    /\ Len(nodes) = 3
    /\ CnameNodes = {3}
    /\ queriedDomain \in Range(nodes[3].domains)
    /\ nodes[3].zoneName # queriedDomain
    /\ nodes[3].cnameTarget = ToLowerCase(CnameTargetData)

----------------------------------------------------------------------------
(* C40: the number of queries of a walk                                    *)

\* The queries made for the candidate whose SOA query is the s-th query: from
\* that query up to the next candidate's SOA query.
SegmentOf(s) == {p \in s..Len(issued) : OpenedAt(p) = s}
OfType(P, ty) == Cardinality({p \in P : issued[p].type = ty})

\* At most six queries per candidate: one SOA, up to three NS, up to two CNAME.
SixPerCandidate ==
    \A s \in SoaPos :
        /\ Cardinality(SegmentOf(s)) <= 6
        /\ OfType(SegmentOf(s), "SOA") = 1
        /\ OfType(SegmentOf(s), "NS") <= 3
        /\ OfType(SegmentOf(s), "CNAME") <= 2

\* No candidate is examined twice, and the candidates are fewer than the
\* labels of the name.
NoRevisit ==
    /\ \A s, r \in SoaPos : s # r => issued[s].name # issued[r].name
    /\ Cardinality(SoaPos) < Len(parts)

\* The probe, the root NS query and the two TLD queries come first and once.
FourFirst ==
    /\ \A p \in DOMAIN issued : p <= 4 \/ p \in UNION {SegmentOf(s) : s \in SoaPos}
    /\ queriedDomain = ROOT => Len(issued) <= 2

QueryBound ==
    /\ Len(issued) <= 4 + 6 * (Len(parts) - 1)
    /\ FourFirst
    /\ SixPerCandidate
    /\ NoRevisit

\* C40: when every query settles, buildZoneHierarchy completes, having made
\* the probe, the root NS query, two TLD queries and at most six queries per
\* candidate (one SOA, up to three NS, up to two CNAME), no candidate twice.
C40_CompletesWithinBoundedQueries ==
    /\ []QueryBound
    /\ <>(walk.pc = "done")

\* A call has completed with the most queries a one-candidate name allows:
\* four, then SOA, three NS and two CNAME queries for the candidate.
C40_Witness ==
    /\ walk.pc = "done"
    /\ Len(domainsToCheck) = 1
    /\ Len(issued) = 10
    /\ OfType(5..10, "NS") = 3
    /\ OfType(5..10, "CNAME") = 2

====
